---- MODULE Spec2Model ----
(***************************************************************************)
(* Model of the playbot pipeline: the identity resolver                    *)
(* (playbot/parse/weapon_infer.py), the event extractor                    *)
(* (playbot/parse/main_parser.py), the strategy solver                     *)
(* (playbot/strategy/strategy.py) and the macro handling of main_auto.py.  *)
(*                                                                         *)
(* Python's Optional[T] is modelled as a sequence of length 0 or 1:        *)
(* None is <<>> and a present value x is <<x>>.                            *)
(***************************************************************************)
EXTENDS Integers, Sequences, FiniteSets, TLC

None == <<>>
Some(x) == <<x>>

\* dict.get(key): None when the key is missing
DictGet(d, k) == IF k \in DOMAIN d THEN Some(d[k]) ELSE None

(***************************************************************************)
(* Bounds                                                                  *)
(***************************************************************************)
\* longest event list handed to assign_weapon_ids
MaxReplies == 3

(***************************************************************************)
(* playbot/types.py                                                        *)
(***************************************************************************)
ENHANCE_SUCCESS == "enhance_success"
ENHANCE_KEEP == "enhance_keep"
ENHANCE_BREAK == "enhance_break"
SELL == "sell"
BUSY == "busy"
INSUFFICIENT_GOLD == "insufficient_gold"

ReplyType == {ENHANCE_SUCCESS, ENHANCE_KEEP, ENHANCE_BREAK, SELL, BUSY, INSUFFICIENT_GOLD}

WeaponInfo(level, name, id) == [level |-> level, name |-> name, id |-> id]

ReplyInfo(type, gold_after, cost, reward, weapon_before, weapon_after, raw_main, raw_aux, timestamp) ==
    [type |-> type, gold_after |-> gold_after, cost |-> cost, reward |-> reward,
     weapon_before |-> weapon_before, weapon_after |-> weapon_after,
     raw_main |-> raw_main, raw_aux |-> raw_aux, timestamp |-> timestamp]

(***************************************************************************)
(* playbot/parse/weapon_infer.py : policy and helpers                      *)
(***************************************************************************)
WeaponIdPolicy ==
    [mode |-> "online",
     online_inherit_on_success_level_up |-> TRUE,
     online_validate_with_index_on_normal_steps |-> FALSE,
     enable_reload |-> TRUE,
     reload_on_missing_key |-> FALSE,
     reload_on_termination_then_missing |-> TRUE,
     keep_candidates_when_after_unindexed |-> TRUE,
     reload_cooldown_sec |-> 30,
     max_reload_calls |-> 2]

\* the policy main() builds for the live loop
infer_policy ==
    [WeaponIdPolicy EXCEPT !.reload_on_missing_key = TRUE,
                           !.reload_on_termination_then_missing = FALSE]

\* an IdLike is None, an int or a set of ints; one field per alternative
IdLikeNone == [int |-> None, set |-> None]
IdLikeInt(i) == [int |-> Some(i), set |-> None]
IdLikeSet(s) == [int |-> None, set |-> Some(s)]

to_set(x) ==
    IF x.set # None THEN Some(x.set[1])
    ELSE IF x.int # None THEN Some({x.int[1]})
    ELSE None

safe_timestamp_seconds(ts) == ts

expected_level_relation(reply_type) ==
    IF reply_type = ENHANCE_SUCCESS THEN Some(1)
    ELSE IF reply_type = ENHANCE_KEEP THEN Some(0)
    ELSE None

\* variant: an item that already carries an id is not looked up again
resolve_key_skip_resolved(w) ==
    IF w = None \/ w[1].id # None THEN None ELSE Some(<<w[1].name, w[1].level>>)

resolve_key(w) == IF w = None THEN None ELSE Some(<<w[1].name, w[1].level>>)

\* variant: the stamped item is built anew and loses its level
set_weapon_id_fresh_item(w, resolved_id) ==
    IF w = None THEN None ELSE Some(WeaponInfo(0, w[1].name, resolved_id))

set_weapon_id(w, resolved_id) ==
    IF w = None THEN None ELSE Some([w[1] EXCEPT !.id = resolved_id])

\* the resolution that settles for the smallest of several candidates
resolved_id_from_candidates_smallest(c) ==
    IF c = None THEN None
    ELSE IF c[1] = {} THEN None
    ELSE Some(CHOOSE x \in c[1] : \A y \in c[1] : x <= y)

resolved_id_from_candidates(c) ==
    IF c = None THEN None
    ELSE IF Cardinality(c[1]) = 1 THEN Some(CHOOSE x \in c[1] : TRUE)
    ELSE None

(***************************************************************************)
(* Inputs of the resolver                                                  *)
(***************************************************************************)
\* two snapshots of book.weapon_index: the one loaded at start and a newer
\* one; a reload installs either of them
Book0 == (<<"A", 0>> :> {1, 2}) @@ (<<"A", 1>> :> {1}) @@ (<<"B", 1>> :> {2})
Book1 == Book0 @@ (<<"C", 1>> :> {2})
Books == {Book0, Book1}

validating_policy ==
    [WeaponIdPolicy EXCEPT !.online_validate_with_index_on_normal_steps = TRUE,
                           !.keep_candidates_when_after_unindexed = FALSE,
                           !.enable_reload = FALSE,
                           !.reload_on_missing_key = TRUE]

\* the calls of assign_weapon_ids that are explored: policy, previous id,
\* and whether a reload callback is passed
Call(p, prev, cb) == [policy |-> p, previous_weapon_id |-> prev, reload_weapon_book |-> cb]

Calls ==
    { Call(WeaponIdPolicy, IdLikeNone, TRUE),
      Call(WeaponIdPolicy, IdLikeSet({1, 2}), FALSE),
      Call(WeaponIdPolicy, IdLikeSet({3, 4}), FALSE),
      Call(infer_policy, IdLikeInt(1), TRUE),
      Call([validating_policy EXCEPT !.online_inherit_on_success_level_up = FALSE],
           IdLikeSet({1, 2}), TRUE),
      Call([WeaponIdPolicy EXCEPT !.max_reload_calls = 0], IdLikeNone, TRUE),
      Call([WeaponIdPolicy EXCEPT !.mode = "batch"], IdLikeNone, TRUE),
      Call(validating_policy, IdLikeInt(1), TRUE) }

W(name, level) == Some(WeaponInfo(level, name, None))

Ev(type, before, after, ts) == ReplyInfo(type, None, None, None, before, after, None, None, ts)

\* the largest event timestamp, in seconds
LastTime == 30

\* events as the extractor emits them (items carry no id yet; the extractor
\* sorts by time, so an event is never earlier than the latest one, t)
InputReplies(t) ==
    { Ev(BUSY, None, None, Some(t)),
      Ev(INSUFFICIENT_GOLD, None, None, Some(t)),
      Ev(SELL, W("A", 1), W("A", 0), Some(t)),
      Ev(ENHANCE_BREAK, W("B", 1), W("A", 0), Some(t)),
      Ev(ENHANCE_SUCCESS, W("A", 0), W("A", 1), Some(t)),
      Ev(ENHANCE_SUCCESS, W("A", 0), W("B", 1), Some(t)),
      Ev(ENHANCE_SUCCESS, W("A", 1), W("A", 1), Some(t)),
      Ev(ENHANCE_KEEP, W("A", 0), W("A", 0), Some(t)),
      Ev(ENHANCE_KEEP, W("A", 1), W("A", 1), Some(t)),
      Ev(ENHANCE_KEEP, W("B", 1), W("B", 1), Some(t)),
      Ev(ENHANCE_KEEP, None, None, Some(t)) }
    \cup { Ev(ENHANCE_KEEP, W("C", 1), W("C", 1), ts) : ts \in {Some(t), Some(LastTime)} }
    \cup { Ev(ENHANCE_SUCCESS, None, W("C", 1), None) }

(***************************************************************************)
(* playbot/parse/main_parser.py : message texts and the regex helpers      *)
(*                                                                         *)
(* A message text is represented by what the patterns of the module find   *)
(* in it: one field per pattern (whether it matches, and the groups it     *)
(* captures), plus the whitespace-separated words of the text for the      *)
(* mention pattern.                                                        *)
(***************************************************************************)
Word(at, text) == [at |-> at, text |-> text]

NoText ==
    [busy |-> FALSE,          \* RE_BUSY
     no_gold |-> FALSE,       \* RE_NO_GOLD
     left_gold |-> None,      \* RE_LEFT_GOLD
     go_earn |-> FALSE,       \* RE_GO_EARN_GOLD
     sell |-> FALSE,          \* RE_SELL
     sold |-> None,           \* RE_SELL_SOLD
     new |-> None,            \* RE_SELL_NEW
     succ_hdr |-> None,       \* RE_SUCC_HDR: <<before level, after level>>
     gain |-> None,           \* RE_SUCC_GAIN
     keep |-> FALSE,          \* RE_KEEP
     keep_line |-> None,      \* RE_KEEP_LINE
     brk |-> FALSE,           \* RE_BREAK
     notice |-> None,         \* RE_BREAK_NOTICE: <<broken, granted>>
     cost |-> None,           \* RE_COST
     gold_after |-> None,     \* RE_GOLD_AFTER_1 / RE_GOLD_AFTER_2
     reward |-> None,         \* RE_REWARD
     words |-> <<>>]

USER_NAME == "user"
BOT_SENDER_NAME == "playbot"
MACRO_NAME == "macro"

Message(sender, content) == [sender |-> sender, content |-> content]

\* texts the bot sends
BotTexts ==
    { [NoText EXCEPT !.busy = TRUE],
      [NoText EXCEPT !.go_earn = TRUE],
      [NoText EXCEPT !.no_gold = TRUE, !.left_gold = Some(5), !.gold_after = Some(5)],
      [NoText EXCEPT !.no_gold = TRUE, !.go_earn = TRUE],
      [NoText EXCEPT !.sell = TRUE, !.sold = W("A", 1), !.new = W("A", 0),
                     !.reward = Some(5), !.gold_after = Some(75)],
      [NoText EXCEPT !.sell = TRUE, !.reward = Some(5), !.gold_after = Some(75)],
      [NoText EXCEPT !.succ_hdr = Some(<<0, 1>>), !.gain = W("A", 1),
                     !.cost = Some(10), !.gold_after = Some(90)],
      [NoText EXCEPT !.succ_hdr = Some(<<0, 1>>), !.gain = W("A", 2),
                     !.cost = Some(10), !.gold_after = Some(90)],
      [NoText EXCEPT !.succ_hdr = Some(<<0, 1>>), !.keep = TRUE, !.keep_line = W("A", 1)],
      [NoText EXCEPT !.keep = TRUE, !.keep_line = W("A", 1),
                     !.cost = Some(20), !.gold_after = Some(70)],
      [NoText EXCEPT !.keep = TRUE, !.cost = Some(20), !.gold_after = Some(70)],
      [NoText EXCEPT !.brk = TRUE, !.cost = Some(20), !.gold_after = Some(50)],
      [NoText EXCEPT !.keep = TRUE, !.keep_line = W("A", 1), !.brk = TRUE],
      [NoText EXCEPT !.notice = Some(<<W("A", 1)[1], W("A", 0)[1]>>)] }

\* texts the human sends
UserTexts ==
    { [NoText EXCEPT !.words = <<Word(TRUE, BOT_SENDER_NAME), Word(FALSE, "ganghwa")>>],
      [NoText EXCEPT !.words = <<Word(TRUE, MACRO_NAME), Word(FALSE, "jungji")>>] }

InputMessages ==
    { Message(BOT_SENDER_NAME, c) : c \in BotTexts }
    \cup { Message(USER_NAME, c) : c \in UserTexts }
    \cup { Message("other", NoText) }

\* values of the lookahead_max argument
LookaheadChoices == {1, 3}

\* longest message list handed to extract_triplets
MaxMessages == 3

\* the entries of known_errors.KNOWN_WEAPON_MISMATCH
KNOWN_WEAPON_MISMATCH == [w \in {} |-> w]

\* `w in KNOWN_WEAPON_MISMATCH` and the replacement that follows it
fix_known_mismatch(w) ==
    IF w # None /\ w[1] \in DOMAIN KNOWN_WEAPON_MISMATCH
    THEN Some(KNOWN_WEAPON_MISMATCH[w[1]])
    ELSE w

extract_cost_gold_reward(content) == <<content.cost, content.gold_after, content.reward>>

parse_weapon_from_gain_line(content) == content.gain

parse_weapon_from_keep_line(content) == content.keep_line

parse_break_notice(content) == content.notice

parse_sell_weapons(content) == <<content.sold, content.new>>

\* the Korean keywords are written in Latin letters: jungji (pause),
\* jaegae (resume), jongryo (exit), ganghwa (enhance)
MacroAction == [PAUSE |-> "jungji", RESUME |-> "jaegae", EXIT |-> "jongryo"]

UserCommand(target, raw, bot_command, macro_action, timestamp) ==
    [target |-> target, raw |-> raw, bot_command |-> bot_command,
     macro_action |-> macro_action, timestamp |-> timestamp]

\* RE_MENTION matches: the text starts with "@" followed by a non-space run
MentionMatches(content) ==
    /\ Len(content.words) >= 1
    /\ content.words[1].at
    /\ content.words[1].text # ""

\* Optional[UserCommand]
parse_user_command(content, timestamp, bot_name, macro_name) ==
    IF ~MentionMatches(content) THEN None
    ELSE LET target == content.words[1].text
             rest == Tail(content.words)
         IN IF target = macro_name
            THEN IF rest = <<Word(FALSE, "jungji")>>
                 THEN Some(UserCommand("macro", content.words, None, Some(MacroAction.PAUSE), timestamp))
                 ELSE IF rest = <<Word(FALSE, "jaegae")>>
                 THEN Some(UserCommand("macro", content.words, None, Some(MacroAction.RESUME), timestamp))
                 ELSE Some(UserCommand("macro", content.words, None, None, timestamp))
            ELSE IF target = bot_name
            THEN Some(UserCommand("bot", content.words,
                                  IF rest = <<>> THEN None ELSE Some(rest), None, timestamp))
            ELSE None

VARIABLES
    \* ---- assign_weapon_ids ----
    replies,              \* the argument list
    book,                 \* book.weapon_index
    previous_weapon_id,   \* argument
    reload_weapon_book,   \* TRUE when a reload callback was passed
    policy,               \* argument
    idx_r,                \* number of replies the loop has processed
    cands, last_after, terminated_prev, pending_idxs,
    reload_calls, last_reload_sec,
    out,
    \* ---- observers ----
    reload_invocations,   \* how many times the reload callback ran in this call
    reload_times,         \* now_sec of each run of the reload callback in this call
    res_log,              \* per processed reply: the loop's state before and after it
    owed,                 \* backfill expectations raised when a track resolved
    track_start,          \* index in out of the first event of the current track
    run,                  \* 1 = first call, 2 = the call on the first call's output,
                          \* 3 = main's call on the list extract_triplets returned
    first_out,            \* output of the first call
    first_invocations     \* reload callback runs of the first call

rvars == <<replies, book, previous_weapon_id, reload_weapon_book, policy, idx_r,
           cands, last_after, terminated_prev, pending_idxs, reload_calls,
           last_reload_sec, out, reload_invocations, reload_times, res_log, owed, track_start,
           run, first_out, first_invocations>>

VARIABLES
    \* ---- extract_triplets ----
    msgs,                 \* df2: the messages in (dt, seq) order
    lookahead_max,        \* argument
    scanning,             \* FALSE while the message list is still being given
    i,                    \* loop index (1-based; n + 1 when the scan is over)
    current_weapon,       \* st.current_weapon
    x_replies,            \* the local list replies
    user_bot_cmds,
    user_macro_cmds,
    \* ---- observer ----
    scan_log              \* per scanned message: event emitted, current_weapon before/after

xvars == <<msgs, lookahead_max, scanning, i, current_weapon, x_replies,
           user_bot_cmds, user_macro_cmds, scan_log>>

\* ---- main_auto.main: the automation loop and the key listener ----
VARIABLES
    chat,                 \* what the human has typed into the chat room so far
    STOP,                 \* StopFlag: [stop |-> _stop, pause |-> _pause]
    listener,             \* the keyboard listener thread is alive
    pc,                   \* position of the loop: "top", "send", "wait", "pause", "exited"
    usercomm,             \* Optional[UserCommand]: usercomm_list[-1]
    sends                 \* observer: number of send_command calls

mvars == <<chat, STOP, listener, pc, usercomm, sends>>

\* ---- optimal_strategy_for_weapon ----
VARIABLES
    kw,                   \* the keyword arguments of the call, tables included
    filled,               \* number of levels whose table entries have been given
    s_pc,                 \* "input", "dp", "done"
    lvl,                  \* the loop variable of the backward induction
    V,                    \* level -> value
    decisions,            \* level -> Decision
    result,               \* the returned dict
    \* ---- observer ----
    prob_src              \* level -> ProbSource.source that probs_at(level) came from

svars == <<kw, filled, s_pc, lvl, V, decisions, result, prob_src>>

\* ---- analysis.add_to_statistics and the tables built from what it collects ----
VARIABLES
    upgrade_cost,         \* before level -> cost
    enhance_events,       \* WeaponInfo -> ReplyType -> list of <<before_gold, timestamp>>
    sell_events,          \* WeaponInfo -> list of <<reward, timestamp>>
    raised,               \* Optional: the exception add_to_statistics raised to its caller
    e_pc,                 \* "collect" while events are added, "built" once the tables are built
    \* ---- observer ----
    fed                   \* the events given to add_to_statistics so far

evars == <<upgrade_cost, enhance_events, sell_events, raised, e_pc, fed>>

\* ---- analysis.stat_utils.wilson_ci ----
VARIABLES
    w_k, w_n,             \* the arguments k and n
    w_pc,                 \* "call" before the call, "returned" or "raised" after it
    w_ret                 \* what the call returned

wvars == <<w_k, w_n, w_pc, w_ret>>

vars == <<rvars, xvars, mvars, svars, evars, wvars>>

EmptyDict == [x \in {} |-> x]

\* the keyword arguments of optimal_strategy_for_weapon, with empty tables
Kw(start_level, max_level, weapon_id, special_ids, min_n, max_break_err) ==
    [start_level |-> start_level, max_level |-> max_level, weapon_id |-> weapon_id,
     special_ids |-> special_ids, min_n |-> min_n, max_break_err |-> max_break_err,
     idlvl_cnt |-> EmptyDict, grplvl_cnt |-> EmptyDict, lvl_cnt |-> EmptyDict,
     sell_idlvl |-> EmptyDict, sell_grplvl |-> EmptyDict, sell_lvl |-> EmptyDict]

\* main() when it enters `while True`
MainStart ==
    /\ chat = <<>>
    /\ STOP = [stop |-> FALSE, pause |-> FALSE]
    /\ listener = TRUE
    /\ pc = "top"
    /\ usercomm = None
    /\ sends = 0

\* optimal_strategy_for_weapon before any table entry has been given
SolverStart ==
    /\ filled = 0
    /\ s_pc = "input"
    /\ lvl = 0
    /\ V = EmptyDict
    /\ decisions = EmptyDict
    /\ result = EmptyDict
    /\ prob_src = EmptyDict

\* empty statistics, before the first add_to_statistics
EstimatorStart ==
    /\ upgrade_cost = EmptyDict
    /\ enhance_events = EmptyDict
    /\ sell_events = EmptyDict
    /\ raised = None
    /\ e_pc = "collect"
    /\ fed = <<>>

EstimatorIdle == EstimatorStart

\* no call of wilson_ci is under way
WilsonIdle ==
    /\ w_k = 0
    /\ w_n = 0
    /\ w_pc = "call"
    /\ w_ret = <<>>

MainIdle == MainStart

SolverIdle ==
    /\ kw = Kw(0, 0, None, {}, 1, <<1, 10>>)
    /\ SolverStart

\* assign_weapon_ids before its loop, with no reply given yet
ResolverStart ==
    /\ replies = <<>>
    /\ book = Book0
    /\ idx_r = 0
    /\ cands = to_set(previous_weapon_id)
    /\ last_after = None
    /\ terminated_prev = FALSE
    /\ pending_idxs = <<>>
    /\ reload_calls = 0
    /\ last_reload_sec = None
    /\ out = <<>>
    /\ reload_invocations = 0
    /\ reload_times = <<>>
    /\ res_log = <<>>
    /\ owed = {}
    /\ track_start = 1
    /\ run = 1
    /\ first_out = <<>>
    /\ first_invocations = 0

\* extract_triplets before its loop, with no message given yet
ExtractorStart ==
    /\ msgs = <<>>
    /\ scanning = FALSE
    /\ i = 1
    /\ current_weapon = None
    /\ x_replies = <<>>
    /\ user_bot_cmds = <<>>
    /\ user_macro_cmds = <<>>
    /\ scan_log = <<>>

\* a component that is not the one under study stays in a fixed start state
ResolverIdle ==
    /\ policy = WeaponIdPolicy /\ previous_weapon_id = IdLikeNone /\ reload_weapon_book = FALSE
    /\ ResolverStart

ExtractorIdle ==
    /\ lookahead_max = 3
    /\ ExtractorStart

InitResolver ==
    /\ \E c \in Calls :
          /\ previous_weapon_id = c.previous_weapon_id
          /\ reload_weapon_book = c.reload_weapon_book
          /\ policy = c.policy
    /\ ResolverStart
    /\ ExtractorIdle
    /\ MainIdle
    /\ SolverIdle
    /\ EstimatorIdle
    /\ WilsonIdle

Range(f) == {f[q] : q \in DOMAIN f}

\* latest known timestamp of the list so far (0 when there is none)
LatestTime(rs) ==
    LET known == {rs[q].timestamp[1] : q \in {j \in DOMAIN rs : rs[j].timestamp # None}}
    IN IF known = {} THEN 0 ELSE CHOOSE m \in known : \A x \in known : x <= m

\* the reply the loop of assign_weapon_ids sees next: in the first call any
\* event up to the bound, in the second call the next element of the list
NextInputs ==
    IF run = 1
    THEN IF Len(replies) < MaxReplies THEN InputReplies(LatestTime(replies)) ELSE {}
    ELSE IF idx_r < Len(replies) THEN {replies[idx_r + 1]} ELSE {}

Consume(r) ==
    /\ idx_r' = idx_r + 1
    /\ replies' = IF run = 1 THEN Append(replies, r) ELSE replies

can_reload(now_sec) ==
    IF ~policy.enable_reload THEN FALSE
    ELSE IF reload_calls >= policy.max_reload_calls THEN FALSE
    ELSE IF now_sec = None \/ last_reload_sec = None THEN TRUE
    ELSE (now_sec[1] - last_reload_sec[1]) >= policy.reload_cooldown_sec

\* lookup_candidates reaches its reload branch
LookupReloads(key, allow_reload) ==
    /\ key # None
    /\ DictGet(book, key[1]) = None
    /\ allow_reload
    /\ reload_weapon_book

\* result of lookup_candidates when the book is new_book after its reloads
lookup_candidates(key, allow_reload, new_book) ==
    IF key = None THEN None
    ELSE IF DictGet(book, key[1]) # None THEN DictGet(book, key[1])
    ELSE IF allow_reload /\ reload_weapon_book THEN DictGet(new_book, key[1])
    ELSE None

\* callback runs of one lookup: maybe_reload's throttled call and the direct call
LookupInvocations(now_sec) == (IF can_reload(now_sec) THEN 1 ELSE 0) + 1

\* variant: the oldest pending reply is left out of the backfill
apply_backfill_skip_oldest(o, pend, resolved_id) ==
    [j \in DOMAIN o |->
        IF j \in Range(pend) /\ j # pend[1]
        THEN [o[j] EXCEPT !.weapon_before = set_weapon_id(o[j].weapon_before, resolved_id),
                          !.weapon_after = set_weapon_id(o[j].weapon_after, resolved_id)]
        ELSE o[j]]

apply_backfill(o, pend, resolved_id) ==
    [j \in DOMAIN o |->
        IF j \in Range(pend)
        THEN [o[j] EXCEPT !.weapon_before = set_weapon_id(o[j].weapon_before, resolved_id),
                          !.weapon_after = set_weapon_id(o[j].weapon_after, resolved_id)]
        ELSE o[j]]

\* every item the event has carries the id rid (None: carries no id)
HasId(e, rid) ==
    /\ e.weapon_before = None \/ e.weapon_before[1].id = rid
    /\ e.weapon_after = None \/ e.weapon_after[1].id = rid

IsTrackEvent(e) == e.type \in {ENHANCE_SUCCESS, ENHANCE_KEEP}

\* index in o of the first event after the last SELL/BREAK
RunStart(o) ==
    LET terms == {j \in DOMAIN o : o[j].type \in {SELL, ENHANCE_BREAK}}
    IN IF terms = {} THEN 1 ELSE (CHOOSE m \in terms : \A x \in terms : x <= m) + 1

\* variant: the closing event is stamped like a SUCCESS/KEEP event, on both items
stamp_terminal_both(r, resolved) ==
    [r EXCEPT !.weapon_before = set_weapon_id(r.weapon_before, resolved),
              !.weapon_after = set_weapon_id(r.weapon_after, resolved)]

\* the reply a SELL/BREAK appends: before gets the track's id, after gets none
stamp_terminal(r, resolved) ==
    [r EXCEPT !.weapon_before = set_weapon_id(r.weapon_before, resolved),
              !.weapon_after = set_weapon_id(r.weapon_after, None)]

\* the entry res_log keeps for one iteration of the loop
LogEntry(kind, cb, ca, pb, pa, tp, mm, looked, ac, missing, inv, unres) ==
    [kind |-> kind, cands_before |-> cb, cands_after |-> ca, pending_before |-> pb,
     pending_after |-> pa, terminated_prev |-> tp, mismatch |-> mm, looked_up |-> looked,
     after_cands |-> ac, key_missing |-> missing, invocations |-> inv, unresolved |-> unres,
     narrowed |-> None, narrowed_flag_flipped |-> None]

\* the entry of an iteration of kind `kind` that leaves cands and pending_idxs alone
PlainEntry(kind) ==
    LogEntry(kind, cands, cands, pending_idxs, pending_idxs, terminated_prev, FALSE, FALSE,
             None, FALSE, 0, {})

\* the pass-through branch, stamping the event with the item of the running track
PassThrough_with_track_item ==
    \E r \in NextInputs :
        /\ r.type \notin {ENHANCE_SUCCESS, ENHANCE_KEEP, ENHANCE_BREAK, SELL}
        /\ Consume(r)
        /\ out' = Append(out, [r EXCEPT !.weapon_before = last_after])
        /\ res_log' = Append(res_log, PlainEntry("pass"))
        /\ UNCHANGED <<book, previous_weapon_id, reload_weapon_book, policy, cands,
                       last_after, terminated_prev, pending_idxs, reload_calls,
                       last_reload_sec, reload_invocations, reload_times, owed, track_start,
                       run, first_out, first_invocations, xvars, mvars, svars, evars, wvars>>

\* BUSY, INSUFFICIENT_GOLD: passed through, no state change
PassThrough ==
    \E r \in NextInputs :
        /\ r.type \notin {ENHANCE_SUCCESS, ENHANCE_KEEP, ENHANCE_BREAK, SELL}
        /\ Consume(r)
        /\ out' = Append(out, r)
        /\ res_log' = Append(res_log, PlainEntry("pass"))
        /\ UNCHANGED <<book, previous_weapon_id, reload_weapon_book, policy, cands,
                       last_after, terminated_prev, pending_idxs, reload_calls,
                       last_reload_sec, reload_invocations, reload_times, owed, track_start,
                       run, first_out, first_invocations, xvars, mvars, svars, evars, wvars>>

\* SELL, ENHANCE_BREAK: the track ends
Terminate ==
    \E r \in NextInputs :
        /\ r.type \in {ENHANCE_BREAK, SELL}
        /\ Consume(r)
        /\ LET resolved == resolved_id_from_candidates(cands)
               out1 == Append(out, stamp_terminal(r, resolved))
           IN /\ out' = IF resolved # None THEN apply_backfill(out1, pending_idxs, resolved)
                                           ELSE out1
              /\ pending_idxs' = <<>>
              /\ cands' = None
              /\ res_log' = Append(res_log, [PlainEntry("terminate") EXCEPT
                                               !.cands_after = None, !.pending_after = <<>>])
              /\ last_after' = IF r.weapon_after # None THEN r.weapon_after ELSE last_after
              /\ terminated_prev' = TRUE
              /\ track_start' = Len(out1) + 1
        /\ UNCHANGED <<book, previous_weapon_id, reload_weapon_book, policy,
                       reload_calls, last_reload_sec, reload_invocations, reload_times, owed,
                       run, first_out, first_invocations, xvars, mvars, svars, evars, wvars>>

\* the candidate update that treats a tolerated book miss as the end of the track
NarrowCandidates_miss_resets(after_key, after_cands, mismatch, allow_fast_inherit) ==
    IF after_cands = None THEN <<None, TRUE>>
    ELSE IF terminated_prev THEN <<after_cands, TRUE>>
    ELSE IF cands = None THEN <<after_cands, TRUE>>
    ELSE IF cands[1] \cap after_cands[1] = {}
         THEN <<after_cands, TRUE>>
         ELSE <<Some(cands[1] \cap after_cands[1]), FALSE>>

\* the candidate update that switches to a disjoint looked-up set without
\* setting reset_track
NarrowCandidates_switch_without_reset(after_key, after_cands, mismatch, allow_fast_inherit) ==
    IF /\ policy.keep_candidates_when_after_unindexed
       /\ after_key # None
       /\ after_cands = None
       /\ ~mismatch
       /\ ~terminated_prev
    THEN <<cands, FALSE>>
    ELSE IF terminated_prev THEN <<after_cands, TRUE>>
    ELSE IF cands = None THEN <<after_cands, TRUE>>
    ELSE IF after_cands # None
         THEN IF cands[1] \cap after_cands[1] = {}
              THEN <<after_cands, FALSE>>
              ELSE <<Some(cands[1] \cap after_cands[1]), FALSE>>
         ELSE <<cands, FALSE>>

\* candidate update of the SUCCESS/KEEP branch: <<new cands, reset_track>>
\* the candidate update whose fast-inherit branch keeps the candidates as they are
NarrowCandidates_inherit_keeps(after_key, after_cands, mismatch, allow_fast_inherit) ==
    IF /\ policy.keep_candidates_when_after_unindexed
       /\ after_key # None
       /\ after_cands = None
       /\ ~mismatch
       /\ ~terminated_prev
    THEN <<cands, FALSE>>
    ELSE IF terminated_prev THEN <<after_cands, TRUE>>
    ELSE IF cands = None THEN <<after_cands, TRUE>>
    ELSE IF allow_fast_inherit THEN <<cands, FALSE>>
    ELSE IF after_cands # None
         THEN IF cands[1] \cap after_cands[1] = {}
              THEN <<after_cands, TRUE>>
              ELSE <<Some(cands[1] \cap after_cands[1]), FALSE>>
         ELSE <<cands, FALSE>>

NarrowCandidates(after_key, after_cands, mismatch, allow_fast_inherit) ==
    IF /\ policy.keep_candidates_when_after_unindexed
       /\ after_key # None
       /\ after_cands = None
       /\ ~mismatch
       /\ ~terminated_prev
    THEN <<cands, FALSE>>
    ELSE IF terminated_prev THEN <<after_cands, TRUE>>
    ELSE IF cands = None THEN <<after_cands, TRUE>>
    ELSE IF allow_fast_inherit
         THEN IF after_cands # None
              THEN IF cands[1] \cap after_cands[1] = {}
                   THEN <<after_cands, TRUE>>
                   ELSE <<Some(cands[1] \cap after_cands[1]), FALSE>>
              ELSE <<cands, FALSE>>
         ELSE IF after_cands # None
              THEN IF cands[1] \cap after_cands[1] = {}
                   THEN <<after_cands, TRUE>>
                   ELSE <<Some(cands[1] \cap after_cands[1]), FALSE>>
              ELSE <<cands, FALSE>>

\* allow_reload that lets every miss reload when either policy flag is set
AllowReload_any_miss(after_termination) ==
    IF policy.mode = "batch" THEN FALSE
    ELSE policy.reload_on_missing_key \/ policy.reload_on_termination_then_missing

\* allow_reload of the SUCCESS/KEEP branch; after_termination is terminated_prev
AllowReload(after_termination) ==
    IF policy.mode = "batch" THEN FALSE
    ELSE \/ policy.reload_on_missing_key
         \/ (after_termination /\ policy.reload_on_termination_then_missing)

\* variant: batch mode validates no more often than online mode
NeedIndexValidation_online_only(mismatch) ==
    \/ policy.online_validate_with_index_on_normal_steps
    \/ cands = None
    \/ mismatch
    \/ terminated_prev

\* need_index_validation: the after-item is looked up in the index
NeedIndexValidation(mismatch) ==
    \/ policy.mode = "batch"
    \/ policy.online_validate_with_index_on_normal_steps
    \/ cands = None
    \/ mismatch
    \/ terminated_prev

\* ENHANCE_SUCCESS, ENHANCE_KEEP
SuccessKeep ==
    \E r \in NextInputs :
        /\ r.type \in {ENHANCE_SUCCESS, ENHANCE_KEEP}
        /\ Consume(r)
        /\ LET now_sec == safe_timestamp_seconds(r.timestamp)
               before == r.weapon_before
               after == r.weapon_after
               after_key == resolve_key(after)
               expected_delta == expected_level_relation(r.type)
               mismatch == /\ expected_delta # None
                           /\ before # None
                           /\ after # None
                           /\ (after[1].level - before[1].level) # expected_delta[1]
               allow_fast_inherit == /\ policy.mode = "online"
                                     /\ policy.online_inherit_on_success_level_up
                                     /\ r.type = ENHANCE_SUCCESS
                                     /\ ~terminated_prev
                                     /\ ~mismatch
               \* allow_fast_inherit under the other value of the policy flag
               allow_fast_inherit_flipped == /\ policy.mode = "online"
                                             /\ ~policy.online_inherit_on_success_level_up
                                             /\ r.type = ENHANCE_SUCCESS
                                             /\ ~terminated_prev
                                             /\ ~mismatch
               need_index_validation == NeedIndexValidation(mismatch)
               allow_reload == AllowReload(terminated_prev)
               \* which of the two lookup calls runs, and with which allow_reload
               looks_up == after_key # None /\ (need_index_validation \/ cands = None)
               lookup_allow == IF need_index_validation THEN allow_reload ELSE FALSE
               reloads == looks_up /\ LookupReloads(after_key, lookup_allow)
           IN \E new_book \in (IF reloads THEN Books ELSE {book}) :
                LET after_cands == IF looks_up
                                   THEN lookup_candidates(after_key, lookup_allow, new_book)
                                   ELSE None
                    narrowed == NarrowCandidates(after_key, after_cands, mismatch, allow_fast_inherit)
                    new_cands == narrowed[1]
                    reset_track == narrowed[2]
                    pend1 == IF reset_track THEN <<>> ELSE pending_idxs
                    resolved == resolved_id_from_candidates(new_cands)
                    new_before == set_weapon_id(r.weapon_before, resolved)
                    new_after == set_weapon_id(r.weapon_after, resolved)
                    out1 == Append(out, [r EXCEPT !.weapon_before = new_before,
                                                  !.weapon_after = new_after])
                    ran_maybe == reloads /\ can_reload(now_sec)
                IN /\ book' = new_book
                   /\ reload_invocations' = IF reloads
                                            THEN reload_invocations + LookupInvocations(now_sec)
                                            ELSE reload_invocations
                   /\ res_log' =
                        Append(res_log,
                               [LogEntry("track", cands, new_cands, pending_idxs,
                                        IF resolved = None THEN Append(pend1, Len(out1))
                                        ELSE <<>>,
                                        terminated_prev, mismatch, looks_up, after_cands,
                                        after_key # None /\ DictGet(book, after_key[1]) = None,
                                        IF reloads THEN LookupInvocations(now_sec) ELSE 0,
                                        {j \in DOMAIN out : HasId(out[j], None)})
                                EXCEPT !.narrowed = Some(narrowed),
                                       !.narrowed_flag_flipped =
                                           Some(NarrowCandidates(after_key, after_cands, mismatch,
                                                                 allow_fast_inherit_flipped))])
                   /\ reload_times' = IF ~reloads THEN reload_times
                                      ELSE IF ran_maybe
                                      THEN reload_times \o <<now_sec, now_sec>>
                                      ELSE Append(reload_times, now_sec)
                   /\ reload_calls' = IF ran_maybe THEN reload_calls + 1 ELSE reload_calls
                   /\ last_reload_sec' = IF ran_maybe THEN now_sec ELSE last_reload_sec
                   /\ cands' = new_cands
                   /\ out' = IF resolved = None THEN out1
                             ELSE apply_backfill(out1, pend1, resolved)
                   /\ pending_idxs' = IF resolved = None THEN Append(pend1, Len(out1))
                                      ELSE <<>>
                   /\ last_after' = IF new_after # None THEN new_after ELSE r.weapon_after
                   /\ terminated_prev' = FALSE
                   /\ track_start' = IF reset_track THEN Len(out1) ELSE track_start
                   /\ owed' = IF resolved = None THEN owed
                              ELSE owed \cup
                                   { [j |-> j, id |-> resolved,
                                      same_track |-> (~reset_track /\ j >= track_start)] :
                                     j \in {q \in RunStart(out)..Len(out) :
                                              IsTrackEvent(out[q]) /\ HasId(out[q], None)} }
        /\ UNCHANGED <<previous_weapon_id, reload_weapon_book, policy, run,
                       first_out, first_invocations, xvars, mvars, svars, evars, wvars>>

\* assign_weapon_ids is called again, on the list the first call returned, with
\* the same book object, previous id, callback and policy
Reresolve ==
    /\ run = 1
    /\ Len(out) >= 1
    /\ run' = 2
    /\ first_out' = out
    /\ first_invocations' = reload_invocations
    /\ replies' = out
    /\ idx_r' = 0
    /\ cands' = to_set(previous_weapon_id)
    /\ last_after' = None
    /\ terminated_prev' = FALSE
    /\ pending_idxs' = <<>>
    /\ reload_calls' = 0
    /\ last_reload_sec' = None
    /\ out' = <<>>
    /\ reload_invocations' = 0
    /\ reload_times' = <<>>
    /\ res_log' = <<>>
    /\ owed' = {}
    /\ track_start' = 1
    /\ UNCHANGED <<book, previous_weapon_id, reload_weapon_book, policy, xvars, mvars, svars, evars, wvars>>

NextResolver == PassThrough \/ Terminate \/ SuccessKeep \/ Reresolve

SpecResolver == InitResolver /\ [][NextResolver]_vars

(***************************************************************************)
(* playbot/parse/main_parser.py : extract_triplets                         *)
(***************************************************************************)
nonExtractor == <<rvars, mvars, svars, evars, wvars>>

\* the caller supplies the next message of the chat log
AddMessage ==
    /\ ~scanning
    /\ Len(msgs) < MaxMessages
    /\ \E m \in InputMessages : msgs' = Append(msgs, m)
    /\ UNCHANGED <<lookahead_max, scanning, i, current_weapon, x_replies,
                   user_bot_cmds, user_macro_cmds, scan_log, nonExtractor>>

\* extract_triplets is called on the messages given so far
StartScan ==
    /\ ~scanning
    /\ scanning' = TRUE
    /\ UNCHANGED <<msgs, lookahead_max, i, current_weapon, x_replies,
                   user_bot_cmds, user_macro_cmds, scan_log, nonExtractor>>

AtMessage == scanning /\ i <= Len(msgs)

\* the rule cascade with a last branch that treats an unmatched text as a busy reply
Rule_unmatched_is_busy(content) ==
    IF content.no_gold THEN "no_gold"
    ELSE IF content.sell THEN "sell"
    ELSE IF content.succ_hdr # None THEN "success"
    ELSE IF content.keep THEN "keep"
    ELSE IF content.brk THEN "break"
    ELSE "busy"

\* the rule cascade with the break pattern tried before the keep pattern
Rule_break_before_keep(content) ==
    IF content.busy THEN "busy"
    ELSE IF content.no_gold THEN "no_gold"
    ELSE IF content.sell THEN "sell"
    ELSE IF content.succ_hdr # None THEN "success"
    ELSE IF content.brk THEN "break"
    ELSE IF content.keep THEN "keep"
    ELSE "none"

\* the first pattern of the bot branch that the text matches
Rule(content) ==
    IF content.busy THEN "busy"
    ELSE IF content.no_gold THEN "no_gold"
    ELSE IF content.sell THEN "sell"
    ELSE IF content.succ_hdr # None THEN "success"
    ELSE IF content.keep THEN "keep"
    ELSE IF content.brk THEN "break"
    ELSE "none"

AtBotMessage(rule) ==
    /\ AtMessage
    /\ msgs[i].sender # USER_NAME
    /\ msgs[i].sender = BOT_SENDER_NAME
    /\ Rule(msgs[i].content) = rule

\* the loop appends ev, sets st.current_weapon to cw and moves on
Emit(ev, cw, aux_at) ==
    /\ x_replies' = Append(x_replies, ev)
    /\ current_weapon' = cw
    /\ i' = i + 1
    /\ scan_log' = Append(scan_log, [ev |-> Some(Len(x_replies) + 1), aux_at |-> aux_at,
                                     before |-> current_weapon, after |-> cw])
    /\ UNCHANGED <<msgs, lookahead_max, scanning, user_bot_cmds, user_macro_cmds,
                   nonExtractor>>

\* the loop moves on without an event
Skip ==
    /\ i' = i + 1
    /\ scan_log' = Append(scan_log, [ev |-> None, aux_at |-> None,
                                     before |-> current_weapon, after |-> current_weapon])
    /\ UNCHANGED <<msgs, lookahead_max, scanning, current_weapon, x_replies, nonExtractor>>

\* sender == user_name: commands
ScanUser ==
    /\ AtMessage
    /\ msgs[i].sender = USER_NAME
    /\ LET cmd == parse_user_command(msgs[i].content, Some(i), BOT_SENDER_NAME, MACRO_NAME)
       IN /\ user_bot_cmds' = IF cmd # None /\ cmd[1].target = "bot"
                              THEN Append(user_bot_cmds, cmd[1]) ELSE user_bot_cmds
          /\ user_macro_cmds' = IF cmd # None /\ cmd[1].target = "macro"
                                THEN Append(user_macro_cmds, cmd[1]) ELSE user_macro_cmds
    /\ Skip

\* a bot text that matches no event pattern
ScanIgnored ==
    /\ AtBotMessage("none")
    /\ UNCHANGED <<user_bot_cmds, user_macro_cmds>>
    /\ Skip

ScanBusy ==
    /\ AtBotMessage("busy")
    /\ Emit(ReplyInfo(BUSY, None, None, None, None, None, Some(msgs[i].content), None, Some(i)),
            current_weapon, None)

\* positions a lookahead from message i examines: at most `width` following
\* messages, up to the first one that is not from the bot
LookaheadPositions(width) ==
    { j \in (i + 1)..(IF i + width <= Len(msgs) THEN i + width ELSE Len(msgs)) :
        \A q \in (i + 1)..j : msgs[q].sender = BOT_SENDER_NAME }

\* the first of the positions where the lookahead found its pattern, as Optional
FirstHit(hits) ==
    IF hits = {} THEN None ELSE Some(CHOOSE j \in hits : \A q \in hits : j <= q)

IsGuidance(j) == msgs[j].content.go_earn

GuidanceLookahead == FirstHit({j \in LookaheadPositions(2) : IsGuidance(j)})

ScanNoGold ==
    /\ AtBotMessage("no_gold")
    /\ LET content == msgs[i].content
           left == content.left_gold
           hit == GuidanceLookahead
           aux == IF hit = None THEN None ELSE Some(msgs[hit[1]].content)
       IN Emit(ReplyInfo(INSUFFICIENT_GOLD, left, None, None, None, None,
                         Some(content), aux, Some(i)),
               current_weapon, hit)

\* variant: the current item becomes the new-item token even when there is none
ScanSell_always_sets_current ==
    /\ AtBotMessage("sell")
    /\ LET content == msgs[i].content
           cgr == extract_cost_gold_reward(content)
           sold_new == parse_sell_weapons(content)
           weapon_before == fix_known_mismatch(IF sold_new[1] # None THEN sold_new[1]
                                               ELSE current_weapon)
           weapon_after == fix_known_mismatch(sold_new[2])
       IN Emit(ReplyInfo(SELL, cgr[2], None, cgr[3], weapon_before, weapon_after,
                         Some(content), None, Some(i)),
               weapon_after, None)

ScanSell ==
    /\ AtBotMessage("sell")
    /\ LET content == msgs[i].content
           cgr == extract_cost_gold_reward(content)
           sold_new == parse_sell_weapons(content)
           weapon_before == fix_known_mismatch(IF sold_new[1] # None THEN sold_new[1]
                                               ELSE current_weapon)
           weapon_after == fix_known_mismatch(sold_new[2])
       IN Emit(ReplyInfo(SELL, cgr[2], None, cgr[3], weapon_before, weapon_after,
                         Some(content), None, Some(i)),
               IF weapon_after # None THEN weapon_after ELSE current_weapon, None)

\* variant: a success header without a gained-item line goes on to the keep rule
ScanSuccessNoGain_falls_through ==
    /\ AtBotMessage("success")
    /\ parse_weapon_from_gain_line(msgs[i].content) = None
    /\ LET content == msgs[i].content
           cgr == extract_cost_gold_reward(content)
           keep_weapon == fix_known_mismatch(parse_weapon_from_keep_line(content))
       IN IF content.keep
          THEN Emit(ReplyInfo(ENHANCE_KEEP, cgr[2], cgr[1], None, keep_weapon, keep_weapon,
                              Some(content), None, Some(i)),
                    IF keep_weapon # None THEN keep_weapon ELSE current_weapon, None)
          ELSE UNCHANGED <<user_bot_cmds, user_macro_cmds>> /\ Skip

\* a success header without a gained-item line: nothing is emitted
ScanSuccessNoGain ==
    /\ AtBotMessage("success")
    /\ parse_weapon_from_gain_line(msgs[i].content) = None
    /\ UNCHANGED <<user_bot_cmds, user_macro_cmds>>
    /\ Skip

\* variant: the before-item is the current item whatever its level
ScanSuccess_before_any_level ==
    /\ AtBotMessage("success")
    /\ LET content == msgs[i].content
           cgr == extract_cost_gold_reward(content)
           after_weapon == parse_weapon_from_gain_line(content)
           weapon_after == fix_known_mismatch(after_weapon)
       IN /\ after_weapon # None
          /\ Emit(ReplyInfo(ENHANCE_SUCCESS, cgr[2], cgr[1], None, current_weapon, weapon_after,
                            Some(content), None, Some(i)),
                  weapon_after, None)

ScanSuccess ==
    /\ AtBotMessage("success")
    /\ LET content == msgs[i].content
           cgr == extract_cost_gold_reward(content)
           before_lv == content.succ_hdr[1][1]
           after_weapon == parse_weapon_from_gain_line(content)
           weapon_before == IF current_weapon # None /\ current_weapon[1].level = before_lv
                            THEN current_weapon ELSE None
           weapon_after == fix_known_mismatch(after_weapon)
       IN /\ after_weapon # None
          /\ Emit(ReplyInfo(ENHANCE_SUCCESS, cgr[2], cgr[1], None, weapon_before, weapon_after,
                            Some(content), None, Some(i)),
                  weapon_after, None)

\* keep_weapon of the KEEP branch
keep_item(content) == fix_known_mismatch(parse_weapon_from_keep_line(content))

ScanKeep ==
    /\ AtBotMessage("keep")
    /\ LET content == msgs[i].content
           cgr == extract_cost_gold_reward(content)
           keep_weapon == keep_item(content)
       IN Emit(ReplyInfo(ENHANCE_KEEP, cgr[2], cgr[1], None, keep_weapon, keep_weapon,
                         Some(content), None, Some(i)),
               IF keep_weapon # None THEN keep_weapon ELSE current_weapon, None)

IsBreakNotice(j) == parse_break_notice(msgs[j].content) # None

\* variant: the notice lookahead skips messages of other senders
NoticeLookaheadAnySender ==
    FirstHit({j \in (i + 1)..(IF i + lookahead_max <= Len(msgs) THEN i + lookahead_max
                                                                ELSE Len(msgs)) :
                msgs[j].sender = BOT_SENDER_NAME /\ IsBreakNotice(j)})

NoticeLookahead == FirstHit({j \in LookaheadPositions(lookahead_max) : IsBreakNotice(j)})

\* a break text with no notice in the lookahead: nothing is emitted
ScanBreakNoNotice ==
    /\ AtBotMessage("break")
    /\ NoticeLookahead = None
    /\ UNCHANGED <<user_bot_cmds, user_macro_cmds>>
    /\ Skip

ScanBreak ==
    /\ AtBotMessage("break")
    /\ NoticeLookahead # None
    /\ LET content == msgs[i].content
           cgr == extract_cost_gold_reward(content)
           aux == msgs[NoticeLookahead[1]].content
           broken_granted == parse_break_notice(aux)[1]
           broken_weapon == fix_known_mismatch(Some(broken_granted[1]))
           granted_weapon == fix_known_mismatch(Some(broken_granted[2]))
       IN Emit(ReplyInfo(ENHANCE_BREAK, cgr[2], cgr[1], None, broken_weapon, granted_weapon,
                         Some(content), Some(aux), Some(i)),
               granted_weapon, NoticeLookahead)

\* a message of a third sender
ScanOther ==
    /\ AtMessage
    /\ msgs[i].sender # USER_NAME
    /\ msgs[i].sender # BOT_SENDER_NAME
    /\ UNCHANGED <<user_bot_cmds, user_macro_cmds>>
    /\ Skip

InitExtractor ==
    /\ lookahead_max \in LookaheadChoices
    /\ ExtractorStart
    /\ ResolverIdle
    /\ MainIdle
    /\ SolverIdle
    /\ EstimatorIdle
    /\ WilsonIdle

NextExtractor ==
    \/ AddMessage \/ StartScan
    \/ ScanUser \/ ScanOther \/ ScanIgnored \/ ScanBusy \/ ScanNoGold \/ ScanSell
    \/ ScanSuccessNoGain \/ ScanSuccess \/ ScanKeep \/ ScanBreakNoNotice \/ ScanBreak

SpecExtractor == InitExtractor /\ [][NextExtractor]_vars

(***************************************************************************)
(* main_auto.main: the automation loop, the macro commands typed into the   *)
(* chat room, and the emergency key listener                               *)
(***************************************************************************)
\* texts the human types while the loop runs
MacroTexts ==
    { [NoText EXCEPT !.words = <<Word(TRUE, MACRO_NAME), Word(FALSE, "jungji")>>],
      [NoText EXCEPT !.words = <<Word(TRUE, MACRO_NAME), Word(FALSE, "jaegae")>>],
      [NoText EXCEPT !.words = <<Word(TRUE, MACRO_NAME), Word(FALSE, "jongryo")>>],
      [NoText EXCEPT !.words = <<Word(TRUE, MACRO_NAME), Word(FALSE, "hello")>>],
      [NoText EXCEPT !.words = <<Word(TRUE, BOT_SENDER_NAME), Word(FALSE, "ganghwa")>>],
      [NoText EXCEPT !.words = <<Word(FALSE, "hello")>>] }

\* longest chat log the human types
MaxChat == 2

\* most commands the loop sends
MaxSends == 3

nonMain == <<rvars, xvars, svars, evars, wvars>>

\* the human types a message into the chat room
HumanTypes ==
    /\ Len(chat) < MaxChat
    /\ \E text \in MacroTexts : chat' = Append(chat, Message(USER_NAME, text))
    /\ UNCHANGED <<STOP, listener, pc, usercomm, sends, nonMain>>

\* on_press(exit_key): set_stop, and the listener ends
PressExitKey ==
    /\ listener
    /\ STOP' = [STOP EXCEPT !.stop = TRUE]
    /\ listener' = FALSE
    /\ UNCHANGED <<chat, pc, usercomm, sends, nonMain>>

\* on_press(pause_key): toggle_pause
PressPauseKey ==
    /\ listener
    /\ STOP' = [STOP EXCEPT !.pause = ~STOP.pause]
    /\ UNCHANGED <<chat, listener, pc, usercomm, sends, nonMain>>

\* `if STOP.is_stop_set(): break`
MainTop ==
    /\ pc = "top"
    /\ pc' = IF STOP.stop THEN "exited" ELSE "send"
    /\ UNCHANGED <<chat, STOP, listener, usercomm, sends, nonMain>>

\* send_command types the mention and the command into the chat room and
\* presses enter: one more command has been sent
send_command(sent) == sent + 1

\* send_command(...)
MainSend ==
    /\ pc = "send"
    /\ sends < MaxSends
    /\ sends' = send_command(sends)
    /\ pc' = "wait"
    /\ UNCHANGED <<chat, STOP, listener, usercomm, nonMain>>

\* the user_macro_cmds extract_triplets builds from the chat log: the
\* positions of the human's messages that parse to a MACRO command
MacroPositions(log) ==
    { k \in DOMAIN log :
        /\ log[k].sender = USER_NAME
        /\ LET cmd == parse_user_command(log[k].content, Some(k), BOT_SENDER_NAME, MACRO_NAME)
           IN cmd # None /\ cmd[1].target = "macro" }

\* usercomm_list[-1] if len(usercomm_list) > 0 else None
LastMacroCommand(log) ==
    IF MacroPositions(log) = {} THEN None
    ELSE LET k == CHOOSE m \in MacroPositions(log) : \A q \in MacroPositions(log) : q <= m
         IN parse_user_command(log[k].content, Some(k), BOT_SENDER_NAME, MACRO_NAME)

\* wait_for_bot_turn, parse_kakao, extract_triplets, and the macro command handling
MainWait ==
    /\ pc = "wait"
    /\ usercomm' = LastMacroCommand(chat)
    /\ STOP' = IF usercomm' # None /\ usercomm'[1].macro_action = Some(MacroAction.PAUSE)
               THEN [STOP EXCEPT !.pause = TRUE]
               ELSE IF usercomm' # None /\ usercomm'[1].macro_action = Some(MacroAction.RESUME)
               THEN [STOP EXCEPT !.pause = FALSE]
               ELSE IF usercomm' # None /\ usercomm'[1].macro_action = Some(MacroAction.EXIT)
               THEN [STOP EXCEPT !.stop = TRUE]
               ELSE STOP
    /\ pc' = "pause"
    /\ UNCHANGED <<chat, listener, sends, nonMain>>

\* `if STOP.is_pause_set(): continue`, else the rest of the iteration
\* (decide_next_command never returns None, so the loop goes on)
MainPause ==
    /\ pc = "pause"
    /\ pc' = "top"
    /\ UNCHANGED <<chat, STOP, listener, usercomm, sends, nonMain>>

InitMain ==
    /\ MainStart
    /\ ResolverIdle
    /\ ExtractorIdle
    /\ SolverIdle
    /\ EstimatorIdle
    /\ WilsonIdle

NextMain ==
    \/ HumanTypes \/ PressExitKey \/ PressPauseKey
    \/ MainTop \/ MainSend \/ MainWait \/ MainPause

SpecMain == InitMain /\ [][NextMain]_vars

(***************************************************************************)
(* strategy.optimal_strategy_for_weapon: backward induction over levels    *)
(***************************************************************************)
\* A float is modelled as an exact fraction <<numerator, denominator>> in
\* lowest terms, float("-inf") as NEG_INF.  The table entries below make every
\* intermediate value a dyadic fraction, which binary floating point holds exactly.
RECURSIVE GCD(_, _)
GCD(a, b) == IF b = 0 THEN a ELSE GCD(b, a % b)

Abs(a) == IF a < 0 THEN -a ELSE a

Frac(a, b) == LET g == GCD(Abs(a), b) IN <<a \div g, b \div g>>

NEG_INF == <<-1, 0>>

FAdd(x, y) == Frac(x[1] * y[2] + y[1] * x[2], x[2] * y[2])

FSub(x, y) == Frac(x[1] * y[2] - y[1] * x[2], x[2] * y[2])

FMul(x, y) == Frac(x[1] * y[1], x[2] * y[2])

\* x / y for y > 0
FDiv(x, y) == Frac(x[1] * y[2], x[2] * y[1])

\* the sign of a/b - c/d for b, d > 0, by continued fractions (no product is formed)
RECURSIVE CmpFrac(_, _, _, _)
CmpFrac(a, b, c, d) ==
    LET qa == a \div b
        qc == c \div d
        ra == a % b
        rc == c % d
    IN IF qa # qc THEN (IF qa < qc THEN -1 ELSE 1)
       ELSE IF ra = 0 THEN (IF rc = 0 THEN 0 ELSE -1)
       ELSE IF rc = 0 THEN 1
       ELSE CmpFrac(d, rc, b, ra)

\* variant: every finite enhancement value beats the sell mean
FGreater_any_finite(x, y) == x # NEG_INF

\* variant: minus infinity beats every sell mean
FGreater_inf_wins(x, y) == IF x = NEG_INF THEN TRUE ELSE CmpFrac(x[1], x[2], y[1], y[2]) > 0

\* variant: a tie counts as greater
FGreater_or_equal(x, y) == IF x = NEG_INF THEN FALSE ELSE CmpFrac(x[1], x[2], y[1], y[2]) >= 0

\* x > y on floats
FGreater(x, y) == IF x = NEG_INF THEN FALSE ELSE CmpFrac(x[1], x[2], y[1], y[2]) > 0

UPGRADE_COST_BY_LEVEL ==
    [l \in 0..18 |->
        <<10, 20, 50, 100, 200, 500, 1000, 2000, 5000, 10000, 20000, 30000, 40000,
          50000, 70000, 100000, 150000, 200000, 300000>>[l + 1]]

EnhanceCounts(n, k_success, k_keep, k_break) ==
    [n |-> n, k_success |-> k_success, k_keep |-> k_keep, k_break |-> k_break]

EnhanceProbs(ps, pk, pb, n) == [ps |-> ps, pk |-> pk, pb |-> pb, n |-> n]

SellStats(mean, std, n) == [mean |-> mean, std |-> std, n |-> n]

Decision(action, v, v_enh, s, ps, pk, pb, n_prob, n_sell) ==
    [action |-> action, V |-> v, V_enh |-> v_enh, S |-> s, ps |-> ps, pk |-> pk,
     pb |-> pb, n_prob |-> n_prob, n_sell |-> n_sell]

\* wilson_halfwidth(k, n) squared, with z = 1.96 = 49/25.  max(0.0, .) and
\* min(1.0, .) in wilson_ci leave the Wilson bounds as they are, so the half
\* width is `half`, and half^2 = 2401 (2500 k (n-k) + 2401 n) / (4 n (625 n + 2401)^2).
wilson_halfwidth_sq(k, n) ==
    IF n <= 0 THEN <<0, 1>>
    ELSE <<2401 * (2500 * k * (n - k) + 2401 * n),
           4 * n * (625 * n + 2401) * (625 * n + 2401)>>

counts_break_halfwidth_sq(cnt) == wilson_halfwidth_sq(cnt.k_break, cnt.n)

\* berr <= max_break_err, both sides being >= 0
break_err_within(cnt, max_break_err) ==
    LET h == counts_break_halfwidth_sq(cnt)
    IN CmpFrac(h[1], h[2], max_break_err[1] * max_break_err[1],
               max_break_err[2] * max_break_err[2]) <= 0

counts_to_probs(cnt) ==
    IF cnt.n <= 0 THEN EnhanceProbs(<<1, 1>>, <<0, 1>>, <<0, 1>>, 0)
    ELSE EnhanceProbs(Frac(cnt.k_success, cnt.n), Frac(cnt.k_keep, cnt.n),
                      Frac(cnt.k_break, cnt.n), cnt.n)

\* variant: the backoff asks the group-level table before the id-level table
select_probs_group_first(weapon_id, group, level, idlvl_cnt, grplvl_cnt, lvl_cnt, min_n, max_break_err) ==
    LET id_cnt == IF weapon_id = None THEN None ELSE DictGet(idlvl_cnt, <<weapon_id[1], level>>)
        grp_cnt == DictGet(grplvl_cnt, <<group, level>>)
        l_cnt == DictGet(lvl_cnt, level)
    IN IF /\ grp_cnt # None /\ grp_cnt[1].n >= min_n
          /\ break_err_within(grp_cnt[1], max_break_err)
       THEN <<counts_to_probs(grp_cnt[1]), "group_level">>
       ELSE IF /\ weapon_id # None /\ id_cnt # None /\ id_cnt[1].n >= min_n
               /\ break_err_within(id_cnt[1], max_break_err)
       THEN <<counts_to_probs(id_cnt[1]), "id_level">>
       ELSE IF l_cnt # None /\ l_cnt[1].n > 0
       THEN <<counts_to_probs(l_cnt[1]), "level">>
       ELSE <<EnhanceProbs(<<1, 1>>, <<0, 1>>, <<0, 1>>, 0), "fallback">>

\* variant: the level tier is held to the thresholds as well
select_probs_level_thresholded(weapon_id, group, level, idlvl_cnt, grplvl_cnt, lvl_cnt, min_n, max_break_err) ==
    LET id_cnt == IF weapon_id = None THEN None ELSE DictGet(idlvl_cnt, <<weapon_id[1], level>>)
        grp_cnt == DictGet(grplvl_cnt, <<group, level>>)
        l_cnt == DictGet(lvl_cnt, level)
    IN IF /\ weapon_id # None /\ id_cnt # None /\ id_cnt[1].n >= min_n
          /\ break_err_within(id_cnt[1], max_break_err)
       THEN <<counts_to_probs(id_cnt[1]), "id_level">>
       ELSE IF /\ grp_cnt # None /\ grp_cnt[1].n >= min_n
               /\ break_err_within(grp_cnt[1], max_break_err)
       THEN <<counts_to_probs(grp_cnt[1]), "group_level">>
       ELSE IF /\ l_cnt # None /\ l_cnt[1].n >= min_n
               /\ break_err_within(l_cnt[1], max_break_err)
       THEN <<counts_to_probs(l_cnt[1]), "level">>
       ELSE <<EnhanceProbs(<<1, 1>>, <<0, 1>>, <<0, 1>>, 0), "fallback">>

\* <<EnhanceProbs, ProbSource.source>>
select_probs_with_backoff(weapon_id, group, level, idlvl_cnt, grplvl_cnt, lvl_cnt, min_n, max_break_err) ==
    LET id_cnt == IF weapon_id = None THEN None ELSE DictGet(idlvl_cnt, <<weapon_id[1], level>>)
        grp_cnt == DictGet(grplvl_cnt, <<group, level>>)
        l_cnt == DictGet(lvl_cnt, level)
    IN IF /\ weapon_id # None /\ id_cnt # None /\ id_cnt[1].n >= min_n
          /\ break_err_within(id_cnt[1], max_break_err)
       THEN <<counts_to_probs(id_cnt[1]), "id_level">>
       ELSE IF /\ grp_cnt # None /\ grp_cnt[1].n >= min_n
               /\ break_err_within(grp_cnt[1], max_break_err)
       THEN <<counts_to_probs(grp_cnt[1]), "group_level">>
       ELSE IF l_cnt # None /\ l_cnt[1].n > 0
       THEN <<counts_to_probs(l_cnt[1]), "level">>
       ELSE <<EnhanceProbs(<<1, 1>>, <<0, 1>>, <<0, 1>>, 0), "fallback">>

get_group(wid, special_ids) ==
    IF wid # None /\ wid[1] \in special_ids THEN "special" ELSE "normal"

probs_at(a, level) ==
    select_probs_with_backoff(a.weapon_id, get_group(a.weapon_id, a.special_ids), level,
                              a.idlvl_cnt, a.grplvl_cnt, a.lvl_cnt,
                              a.min_n, a.max_break_err)[1]

\* the ProbSource.source select_probs_with_backoff returns next to p
probs_source_at(a, level) ==
    select_probs_with_backoff(a.weapon_id, get_group(a.weapon_id, a.special_ids), level,
                              a.idlvl_cnt, a.grplvl_cnt, a.lvl_cnt,
                              a.min_n, a.max_break_err)[2]

\* variant: the level table is asked first
sell_at_level_first(a, level) ==
    LET by_id == IF a.weapon_id = None THEN None
                 ELSE DictGet(a.sell_idlvl, <<a.weapon_id[1], level>>)
        by_grp == DictGet(a.sell_grplvl, <<get_group(a.weapon_id, a.special_ids), level>>)
        by_lvl == DictGet(a.sell_lvl, level)
    IN IF by_lvl # None THEN by_lvl[1]
       ELSE IF by_grp # None THEN by_grp[1]
       ELSE IF by_id # None THEN by_id[1]
       ELSE SellStats(<<0, 1>>, <<0, 1>>, 0)

sell_at(a, level) ==
    LET by_id == IF a.weapon_id = None THEN None
                 ELSE DictGet(a.sell_idlvl, <<a.weapon_id[1], level>>)
        by_grp == DictGet(a.sell_grplvl, <<get_group(a.weapon_id, a.special_ids), level>>)
        by_lvl == DictGet(a.sell_lvl, level)
    IN IF by_id # None THEN by_id[1]
       ELSE IF by_grp # None THEN by_grp[1]
       ELSE IF by_lvl # None THEN by_lvl[1]
       ELSE SellStats(<<0, 1>>, <<0, 1>>, 0)

\* denom <= 1e-12
denom_too_small(denom) == CmpFrac(denom[1] * 1000000, denom[2], 1, 1000000) <= 0

\* highest max_level of a call
MaxLevel == 2

\* the weapon the tables know by id
KnownId == 1

\* what the six tables may hold for one level
LevelData ==
    LET row(ic, gc, lc, si, sg, sl) ==
            [idlvl_cnt |-> ic, grplvl_cnt |-> gc, lvl_cnt |-> lc,
             sell_idlvl |-> si, sell_grplvl |-> sg, sell_lvl |-> sl]
        sold(mean, n) == Some(SellStats(<<mean, 1>>, <<0, 1>>, n))
    IN { row(None, None, None, None, None, None),
         row(Some(EnhanceCounts(4, 2, 2, 0)), None, None, sold(30, 3), None, None),
         row(Some(EnhanceCounts(4, 2, 0, 2)), Some(EnhanceCounts(8, 4, 0, 4)),
             Some(EnhanceCounts(8, 4, 4, 0)), None, sold(100, 5), None),
         row(None, None, Some(EnhanceCounts(4, 0, 4, 0)), None, None, sold(30, 2)),
         row(Some(EnhanceCounts(2, 2, 0, 0)), None, Some(EnhanceCounts(4, 4, 0, 0)),
             sold(200, 1), None, sold(100, 4)),
         row(None, Some(EnhanceCounts(4, 2, 2, 0)), None, None, None, None),
         row(None, None, Some(EnhanceCounts(2, 1, 0, 1)), None, None, sold(30, 2)),
         row(Some(EnhanceCounts(4, 2, 2, 0)), Some(EnhanceCounts(8, 4, 0, 4)),
             Some(EnhanceCounts(8, 4, 4, 0)), sold(30, 3), sold(100, 5), sold(200, 4)) }

\* the table with the entry (if any) added under the key
Put(table, key, entry) == IF entry = None THEN table ELSE (key :> entry[1]) @@ table

WithLevelData(a, level, row) ==
    [a EXCEPT !.idlvl_cnt = Put(@, <<KnownId, level>>, row.idlvl_cnt),
              !.grplvl_cnt = Put(@, <<"normal", level>>, row.grplvl_cnt),
              !.lvl_cnt = Put(@, level, row.lvl_cnt),
              !.sell_idlvl = Put(@, <<KnownId, level>>, row.sell_idlvl),
              !.sell_grplvl = Put(@, <<"normal", level>>, row.sell_grplvl),
              !.sell_lvl = Put(@, level, row.sell_lvl)]

\* the calls of optimal_strategy_for_weapon
SolverCalls ==
    { Kw(start_level, max_level, weapon_id, special_ids, 4, max_break_err) :
        start_level \in 0..MaxLevel, max_level \in 0..MaxLevel,
        weapon_id \in {None, Some(KnownId)}, special_ids \in {{}, {KnownId}},
        max_break_err \in {<<1, 4>>, <<3, 10>>} }

nonSolver == <<rvars, xvars, mvars, evars, wvars>>

\* the caller's tables hold one more level
SolverAddData ==
    /\ s_pc = "input"
    /\ filled <= kw.max_level
    /\ \E row \in LevelData : kw' = WithLevelData(kw, filled, row)
    /\ filled' = filled + 1
    /\ UNCHANGED <<s_pc, lvl, V, decisions, result, prob_src, nonSolver>>

\* V = {max_level: sell_at(max_level).mean}; decisions = {}
SolverBegin ==
    /\ s_pc = "input"
    /\ filled = kw.max_level + 1
    /\ V' = (kw.max_level :> sell_at(kw, kw.max_level).mean)
    /\ decisions' = EmptyDict
    /\ lvl' = kw.max_level - 1
    /\ s_pc' = "dp"
    /\ UNCHANGED <<kw, filled, result, prob_src, nonSolver>>

\* one pass of `for lvl in range(max_level - 1, -1, -1)`
SolverLevel ==
    /\ s_pc = "dp"
    /\ lvl >= 0
    /\ LET s == sell_at(kw, lvl)
           p == probs_at(kw, lvl)
           S == s.mean
           C == <<DictGet(UPGRADE_COST_BY_LEVEL, lvl)[1], 1>>
           denom == FSub(<<1, 1>>, p.pk)
           V_enh == IF denom_too_small(denom) THEN NEG_INF
                    ELSE FDiv(FAdd(FSub(<<0, 1>>, C), FMul(p.ps, V[lvl + 1])), denom)
           action == IF FGreater(V_enh, S) THEN "ENHANCE" ELSE "SELL"
           V_opt == IF FGreater(V_enh, S) THEN V_enh ELSE S
       IN /\ V' = (lvl :> V_opt) @@ V
          /\ decisions' = (lvl :> Decision(action, V_opt, V_enh, S, p.ps, p.pk, p.pb, p.n, s.n))
                          @@ decisions
    /\ prob_src' = (lvl :> probs_source_at(kw, lvl)) @@ prob_src
    /\ lvl' = lvl - 1
    /\ UNCHANGED <<kw, filled, s_pc, result, nonSolver>>

\* return {lvl: decisions[lvl] for lvl in range(start_level, max_level + 1) if lvl in decisions}
SolverReturn ==
    /\ s_pc = "dp"
    /\ lvl < 0
    /\ result' = [l \in {m \in kw.start_level..kw.max_level : m \in DOMAIN decisions}
                    |-> decisions[l]]
    /\ s_pc' = "done"
    /\ UNCHANGED <<kw, filled, lvl, V, decisions, prob_src, nonSolver>>

InitSolver ==
    /\ kw \in SolverCalls
    /\ SolverStart
    /\ ResolverIdle
    /\ ExtractorIdle
    /\ MainIdle
    /\ EstimatorIdle
    /\ WilsonIdle

NextSolver == SolverAddData \/ SolverBegin \/ SolverLevel \/ SolverReturn

SpecSolver == InitSolver /\ [][NextSolver]_vars

(***************************************************************************)
(* main_auto.main: extract_triplets followed by assign_weapon_ids          *)
(***************************************************************************)
\* current_weapon.id, which main passes as previous_weapon_id
MainPreviousIds == {IdLikeNone, IdLikeInt(1)}

\* main hands the list extract_triplets returned to assign_weapon_ids
Handover ==
    /\ scanning
    /\ i > Len(msgs)
    /\ run = 1
    /\ run' = 3
    /\ replies' = x_replies
    /\ policy' = infer_policy
    /\ reload_weapon_book' = TRUE
    /\ \E prev \in MainPreviousIds :
          /\ previous_weapon_id' = prev
          /\ cands' = to_set(prev)
    /\ UNCHANGED <<book, idx_r, last_after, terminated_prev, pending_idxs, reload_calls,
                   last_reload_sec, out, reload_invocations, reload_times, res_log, owed,
                   track_start,
                   first_out, first_invocations, xvars, mvars, svars, evars, wvars>>

\* one iteration of assign_weapon_ids over the extracted list
ResolveExtracted ==
    /\ run = 3
    /\ (PassThrough \/ Terminate \/ SuccessKeep)

InitParse == InitExtractor

NextParse == NextExtractor \/ Handover \/ ResolveExtracted

SpecParse == InitParse /\ [][NextParse]_vars

(***************************************************************************)
(* analysis.add_to_statistics, build_count_tables, build_sell_tables       *)
(***************************************************************************)
\* the tree pages of the loaded book: hierarchy id -> by_level (level -> WeaponInfo)
Hierarchies0 ==
    (1 :> [by_level |-> (0 :> WeaponInfo(0, "A", Some(1))) @@ (1 :> WeaponInfo(1, "A", Some(1)))])
    @@ (2 :> [by_level |-> (0 :> WeaponInfo(0, "A", Some(2))) @@ (1 :> WeaponInfo(1, "B", Some(2)))])

StatBook == [hierarchies |-> Hierarchies0, weapon_index |-> Book0, special_ids |-> {2}]

\* ValueError / AssertionError as the caller of add_to_statistics sees them
ValueError == "ValueError"
AssertionError == "AssertionError"

\* _set_upgrade_cost that replaces the stored cost instead of raising
set_upgrade_cost_overwrite(uc, lv, cost) ==
    [upgrade_cost |-> [k \in DOMAIN uc \cup {lv} |-> IF k = lv THEN cost ELSE uc[k]],
     raised |-> None]

\* _set_upgrade_cost: the table after the call and the exception raised, if any
set_upgrade_cost(uc, lv, cost) ==
    LET prev == DictGet(uc, lv)
    IN IF prev = None THEN [upgrade_cost |-> (lv :> cost) @@ uc, raised |-> None]
       ELSE IF prev[1] # cost THEN [upgrade_cost |-> uc, raised |-> Some(ValueError)]
       ELSE [upgrade_cost |-> uc, raised |-> None]

\* _before_gold: None stands for the AssertionError it raises
before_gold(r) ==
    IF r.gold_after = None \/ r.cost = None THEN None
    ELSE Some(r.gold_after[1] + r.cost[1])

\* _infer_before_from_after
infer_before_from_after(weapon_book, wa) ==
    IF wa = None THEN None
    ELSE IF wa[1].level <= 0 THEN None
    ELSE LET hid_set == DictGet(weapon_book.weapon_index, <<wa[1].name, wa[1].level>>)
         IN IF hid_set = None THEN None
            ELSE IF Cardinality(hid_set[1]) # 1 THEN None
            ELSE LET hid == CHOOSE h \in hid_set[1] : TRUE
                     hier == DictGet(weapon_book.hierarchies, hid)
                 IN IF hier = None THEN None
                    ELSE IF (wa[1].level - 1) \notin DOMAIN hier[1].by_level THEN None
                    ELSE Some(WeaponInfo(wa[1].level - 1,
                                         hier[1].by_level[wa[1].level - 1].name, Some(hid)))

EnhanceTypes == {ENHANCE_SUCCESS, ENHANCE_KEEP, ENHANCE_BREAK}

\* the item an enhance event is attributed to (weapon_before, inferred for a SUCCESS)
stat_before(reply, weapon_book) ==
    IF reply.weapon_before # None THEN reply.weapon_before
    ELSE IF reply.type = ENHANCE_SUCCESS /\ reply.weapon_after # None
    THEN infer_before_from_after(weapon_book, reply.weapon_after)
    ELSE None

StatState(uc, ee, se, exc) ==
    [upgrade_cost |-> uc, enhance_events |-> ee, sell_events |-> se, raised |-> exc]

\* add_to_statistics: the three containers after the call and the exception raised
add_to_statistics(reply, weapon_book, uc, ee, se) ==
    IF reply.type \in EnhanceTypes
    THEN LET wb == stat_before(reply, weapon_book)
         IN IF wb = None THEN StatState(uc, ee, se, None)
            ELSE IF reply.cost = None THEN StatState(uc, ee, se, None)
            ELSE LET su == set_upgrade_cost(uc, wb[1].level, reply.cost[1])
                     bg == before_gold(reply)
                     entry == IF wb[1] \in DOMAIN ee THEN ee[wb[1]]
                              ELSE [t \in EnhanceTypes |-> <<>>]
                 IN IF su.raised # None THEN StatState(su.upgrade_cost, ee, se, su.raised)
                    ELSE IF bg = None
                    THEN StatState(su.upgrade_cost, ee, se, Some(AssertionError))
                    ELSE StatState(su.upgrade_cost,
                                   (wb[1] :> [entry EXCEPT ![reply.type] =
                                                 Append(@, <<bg[1], reply.timestamp>>)]) @@ ee,
                                   se, None)
    ELSE IF reply.type = SELL
    THEN IF reply.weapon_before = None \/ reply.reward = None THEN StatState(uc, ee, se, None)
         ELSE LET wb == reply.weapon_before[1]
                  old == IF wb \in DOMAIN se THEN se[wb] ELSE <<>>
              IN StatState(uc, ee, (wb :> Append(old, <<reply.reward[1], reply.timestamp>>)) @@ se,
                           None)
    ELSE StatState(uc, ee, se, None)

RECURSIVE SumOver(_, _)
\* sum of f over the keys in ks
SumOver(f, ks) ==
    IF ks = {} THEN 0
    ELSE LET k == CHOOSE x \in ks : TRUE IN f[k] + SumOver(f, ks \ {k})

\* build_count_tables that also counts the items without a tree id
build_count_tables_all_items(ee, special_ids) ==
    LET ws == DOMAIN ee
        idof(w) == IF w.id = None THEN 0 ELSE w.id[1]
        grp(w) == IF idof(w) \in special_ids THEN "special" ELSE "normal"
        cnt(sel, t) == SumOver([w \in sel |-> Len(ee[w][t])], sel)
        to_counts(sel) ==
            EnhanceCounts(cnt(sel, ENHANCE_SUCCESS) + cnt(sel, ENHANCE_KEEP) + cnt(sel, ENHANCE_BREAK),
                          cnt(sel, ENHANCE_SUCCESS), cnt(sel, ENHANCE_KEEP), cnt(sel, ENHANCE_BREAK))
    IN <<[k \in {<<idof(w), w.level>> : w \in ws}
            |-> to_counts({w \in ws : <<idof(w), w.level>> = k})],
         [k \in {<<grp(w), w.level>> : w \in ws}
            |-> to_counts({w \in ws : <<grp(w), w.level>> = k})],
         [k \in {w.level : w \in ws} |-> to_counts({w \in ws : w.level = k})]>>

\* variant: the level table leaves out the special trees
build_count_tables_level_normal_only(ee, special_ids) ==
    LET ws == {w \in DOMAIN ee : w.id # None}
        grp(w) == IF w.id[1] \in special_ids THEN "special" ELSE "normal"
        cnt(sel, t) == SumOver([w \in sel |-> Len(ee[w][t])], sel)
        to_counts(sel) ==
            EnhanceCounts(cnt(sel, ENHANCE_SUCCESS) + cnt(sel, ENHANCE_KEEP) + cnt(sel, ENHANCE_BREAK),
                          cnt(sel, ENHANCE_SUCCESS), cnt(sel, ENHANCE_KEEP), cnt(sel, ENHANCE_BREAK))
    IN <<[k \in {<<w.id[1], w.level>> : w \in ws}
            |-> to_counts({w \in ws : <<w.id[1], w.level>> = k})],
         [k \in {<<grp(w), w.level>> : w \in ws}
            |-> to_counts({w \in ws : <<grp(w), w.level>> = k})],
         [k \in {w.level : w \in ws}
            |-> to_counts({w \in ws : w.level = k /\ grp(w) = "normal"})]>>

\* build_count_tables: <<idlvl_cnt, grplvl_cnt, lvl_cnt>>
build_count_tables(ee, special_ids) ==
    LET ws == {w \in DOMAIN ee : w.id # None}
        grp(w) == IF w.id[1] \in special_ids THEN "special" ELSE "normal"
        cnt(sel, t) == SumOver([w \in sel |-> Len(ee[w][t])], sel)
        to_counts(sel) ==
            EnhanceCounts(cnt(sel, ENHANCE_SUCCESS) + cnt(sel, ENHANCE_KEEP) + cnt(sel, ENHANCE_BREAK),
                          cnt(sel, ENHANCE_SUCCESS), cnt(sel, ENHANCE_KEEP), cnt(sel, ENHANCE_BREAK))
    IN <<[k \in {<<w.id[1], w.level>> : w \in ws}
            |-> to_counts({w \in ws : <<w.id[1], w.level>> = k})],
         [k \in {<<grp(w), w.level>> : w \in ws}
            |-> to_counts({w \in ws : <<grp(w), w.level>> = k})],
         [k \in {w.level : w \in ws} |-> to_counts({w \in ws : w.level = k})]>>

RECURSIVE SumRewards(_)
\* sum of the rewards of a list of <<reward, timestamp>>
SumRewards(xs) == IF xs = <<>> THEN 0 ELSE Head(xs)[1] + SumRewards(Tail(xs))

RECURSIVE SumSquares(_)
SumSquares(xs) == IF xs = <<>> THEN 0 ELSE Head(xs)[1] * Head(xs)[1] + SumSquares(Tail(xs))

\* build_sell_tables.stats over the lists of the items in sel; the std field holds
\* the sample variance (std squared), 0 for fewer than two values
sell_stats(se, sel) ==
    LET n == SumOver([w \in sel |-> Len(se[w])], sel)
        total == SumOver([w \in sel |-> SumRewards(se[w])], sel)
        squares == SumOver([w \in sel |-> SumSquares(se[w])], sel)
    IN IF n = 0 THEN SellStats(<<0, 1>>, <<0, 1>>, 0)
       ELSE SellStats(Frac(total, n),
                      IF n >= 2 THEN Frac(n * squares - total * total, n * (n - 1))
                      ELSE <<0, 1>>,
                      n)

\* build_sell_tables: <<sell_idlvl, sell_grplvl, sell_lvl>>
build_sell_tables(se, special_ids) ==
    LET ws == {w \in DOMAIN se : w.id # None}
        grp(w) == IF w.id[1] \in special_ids THEN "special" ELSE "normal"
    IN <<[k \in {<<w.id[1], w.level>> : w \in ws}
            |-> sell_stats(se, {w \in ws : <<w.id[1], w.level>> = k})],
         [k \in {<<grp(w), w.level>> : w \in ws}
            |-> sell_stats(se, {w \in ws : <<grp(w), w.level>> = k})],
         [k \in {w.level : w \in ws} |-> sell_stats(se, {w \in ws : w.level = k})]>>

\* ---- the events given to add_to_statistics ----
MaxStatReplies == 4

Item(level, name, id) == Some(WeaponInfo(level, name, id))

StatEv(type, gold_after, cost, reward, before, after) ==
    ReplyInfo(type, gold_after, cost, reward, before, after, None, None, None)

StatIds == {None, Some(1)}

StatReplies ==
    {StatEv(ENHANCE_SUCCESS, Some(90), Some(10), None, Item(0, "A", id), Item(1, "A", id)) :
        id \in StatIds}
    \cup {StatEv(ENHANCE_SUCCESS, Some(90), Some(10), None, None, Item(1, "A", None))}
    \cup {StatEv(ENHANCE_KEEP, Some(70), Some(20), None, Item(1, "A", Some(1)), Item(1, "A", Some(1)))}
    \cup {StatEv(ENHANCE_KEEP, Some(70), Some(20), None, Item(1, "B", Some(2)), Item(1, "B", Some(2)))}
    \cup {StatEv(ENHANCE_BREAK, c[1], c[2], None, Item(1, "A", Some(1)), Item(0, "B", None)) :
            c \in {<<None, None>>, <<Some(50), Some(20)>>, <<Some(40), Some(30)>>,
                   <<None, Some(20)>>}}
    \cup {StatEv(SELL, Some(75), None, Some(5), Item(0, "B", id), Item(0, "C", None)) :
            id \in StatIds}
    \cup {StatEv(BUSY, None, None, None, None, None),
          StatEv(INSUFFICIENT_GOLD, Some(3), None, None, None, None)}

nonEstimator == <<rvars, xvars, mvars, wvars>>

\* one collected event is handed to add_to_statistics; an exception ends the run
AddToStatistics ==
    /\ e_pc = "collect"
    /\ raised = None
    /\ Len(fed) < MaxStatReplies
    /\ \E reply \in StatReplies :
        LET st == add_to_statistics(reply, StatBook, upgrade_cost, enhance_events, sell_events)
        IN /\ upgrade_cost' = st.upgrade_cost
           /\ enhance_events' = st.enhance_events
           /\ sell_events' = st.sell_events
           /\ raised' = st.raised
           /\ fed' = Append(fed, reply)
    /\ UNCHANGED <<e_pc, svars, nonEstimator>>

\* build_count_tables and build_sell_tables over what was collected, handed to
\* optimal_strategy_for_weapon with min_n = 1 and the default max_break_err
BuildTables ==
    /\ e_pc = "collect"
    /\ raised = None
    /\ s_pc = "input"
    /\ LET ct == build_count_tables(enhance_events, StatBook.special_ids)
           stb == build_sell_tables(sell_events, StatBook.special_ids)
       IN kw' = [Kw(0, MaxLevel, Some(KnownId), StatBook.special_ids, 1, <<1, 50>>)
                    EXCEPT !.idlvl_cnt = ct[1], !.grplvl_cnt = ct[2], !.lvl_cnt = ct[3],
                           !.sell_idlvl = stb[1], !.sell_grplvl = stb[2], !.sell_lvl = stb[3]]
    /\ filled' = MaxLevel + 1
    /\ e_pc' = "built"
    /\ UNCHANGED <<upgrade_cost, enhance_events, sell_events, raised, fed,
                   lvl, V, decisions, result, prob_src, s_pc, nonEstimator>>

InitEstimator ==
    /\ EstimatorStart
    /\ SolverIdle
    /\ ResolverIdle
    /\ ExtractorIdle
    /\ MainIdle
    /\ WilsonIdle

NextEstimator == AddToStatistics \/ BuildTables \/ SolverBegin \/ SolverLevel \/ SolverReturn

SpecEstimator == InitEstimator /\ [][NextEstimator]_vars

(***************************************************************************)
(* analysis.stat_utils.wilson_ci, in exact arithmetic                      *)
(***************************************************************************)
\* a float of the form c + s * sqrt(q): c and q >= 0 are fractions, s is -1, 0 or 1
Surd(c, s, q) == [c |-> c, s |-> s, q |-> q]

Rat(a, b) == Surd(Frac(a, b), 0, <<0, 1>>)

\* x * x for a fraction x
FSquare(x) == <<x[1] * x[1], x[2] * x[2]>>

\* x <= y on fractions
FLeq(x, y) == CmpFrac(x[1], x[2], y[1], y[2]) <= 0

\* x <= r for a Surd x and a fraction r
SurdLeqRat(x, r) ==
    IF x.s = 0 THEN FLeq(x.c, r)
    ELSE IF x.s = 1 THEN FLeq(x.c, r) /\ FLeq(x.q, FSquare(FSub(r, x.c)))
    ELSE FLeq(x.c, r) \/ FLeq(FSquare(FSub(x.c, r)), x.q)

\* r <= x for a fraction r and a Surd x
RatLeqSurd(r, x) ==
    IF x.s = 0 THEN FLeq(r, x.c)
    ELSE IF x.s = 1 THEN FLeq(r, x.c) \/ FLeq(FSquare(FSub(r, x.c)), x.q)
    ELSE FLeq(r, x.c) /\ FLeq(x.q, FSquare(FSub(x.c, r)))

\* max(0.0, x) and min(1.0, x)
max_zero(x) == IF SurdLeqRat(x, <<0, 1>>) THEN Rat(0, 1) ELSE x

min_one(x) == IF RatLeqSurd(<<1, 1>>, x) THEN Rat(1, 1) ELSE x

\* the centre without the division by 1 + z*z/n: phat + z*z/(2n)
wilson_center_undivided(k, n) == Frac(1250 * k + 2401, 1250 * n)

\* center of wilson_ci for z = 1.96 and n >= 1: (phat + z*z/(2n)) / (1 + z*z/n)
wilson_center(k, n) == Frac(1250 * k + 2401, 2 * (625 * n + 2401))

\* wilson_ci(k, n, z=1.96): (low, high), with center as line 16 computes it; raised
\* is the ValueError of math.sqrt for a negative argument
wilson_ci(k, n) ==
    IF n <= 0 THEN [raised |-> FALSE, low |-> Rat(0, 1), high |-> Rat(0, 1), center |-> None]
    ELSE LET h2 == wilson_halfwidth_sq(k, n)
         IN IF h2[1] < 0 THEN [raised |-> TRUE, low |-> Rat(0, 1), high |-> Rat(0, 1),
                               center |-> None]
            ELSE [raised |-> FALSE,
                  low |-> max_zero(Surd(wilson_center(k, n), -1, Frac(h2[1], h2[2]))),
                  high |-> min_one(Surd(wilson_center(k, n), 1, Frac(h2[1], h2[2]))),
                  center |-> Some(wilson_center(k, n))]

\* the largest k and n given to wilson_ci
MaxTrials == 7

nonWilson == <<rvars, xvars, mvars, svars, evars>>

\* wilson_ci is called with k and n
WilsonCall ==
    /\ w_pc = "call"
    /\ LET r == wilson_ci(w_k, w_n)
       IN /\ w_pc' = IF r.raised THEN "raised" ELSE "returned"
          /\ w_ret' = IF r.raised THEN <<>> ELSE <<r>>
    /\ UNCHANGED <<w_k, w_n, nonWilson>>

\* the caller goes on to its next k and n
WilsonNext ==
    /\ w_pc # "call"
    /\ \E k \in 0..MaxTrials, n \in 0..MaxTrials :
          /\ w_k' = k
          /\ w_n' = n
    /\ w_pc' = "call"
    /\ w_ret' = <<>>
    /\ UNCHANGED nonWilson

InitWilson ==
    /\ w_k \in 0..MaxTrials
    /\ w_n \in 0..MaxTrials
    /\ w_pc = "call"
    /\ w_ret = <<>>
    /\ ResolverIdle
    /\ ExtractorIdle
    /\ MainIdle
    /\ SolverIdle
    /\ EstimatorIdle

NextWilson == WilsonCall \/ WilsonNext

SpecWilson == InitWilson /\ [][NextWilson]_vars

(***************************************************************************)
(* Properties of the identity resolver                                     *)
(***************************************************************************)
Terminal(e) == e.type \in {SELL, ENHANCE_BREAK}

\* C1 as stated: whenever a SUCCESS/KEEP event resolves to a single id, every
\* earlier SUCCESS/KEEP event since the last SELL/BREAK that was still
\* unresolved carries that id in the output.
C1_BackfillWholeRun ==
    \A o \in owed : HasId(out[o.j], o.id)

\* C1 amended: whenever a SUCCESS/KEEP event resolves to a single id, every
\* earlier still-unresolved SUCCESS/KEEP event that no SELL/BREAK and no
\* candidate reset (track discontinuity) separates from it carries that id.
C1_BackfillSameTrack ==
    \A o \in owed : o.same_track => HasId(out[o.j], o.id)

\* an earlier unresolved event with an item was backfilled
C1_Witness ==
    \E o \in owed : /\ o.same_track
                    /\ out[o.j].weapon_after # None
                    /\ out[o.j].weapon_after[1].id = o.id

\* C2: the reload callback runs at most policy.max_reload_calls times in one
\* call of assign_weapon_ids.
C2_ReloadBudget ==
    reload_invocations <= policy.max_reload_calls

\* C3: every SELL/BREAK event of the output has no id on item_after, and
\* right after such an event the candidate set is None.
C3_TerminationResets ==
    /\ \A j \in DOMAIN out :
         Terminal(out[j]) => (out[j].weapon_after = None \/ out[j].weapon_after[1].id = None)
    /\ terminated_prev => cands = None
    /\ (idx_r > 0 /\ Terminal(out[idx_r])) => (terminated_prev /\ cands = None)

\* a SELL/BREAK closed a resolved track: its item_before got the id, item_after none
C3_Witness ==
    /\ idx_r > 0
    /\ Terminal(out[idx_r])
    /\ out[idx_r].weapon_before # None
    /\ out[idx_r].weapon_before[1].id # None
    /\ out[idx_r].weapon_after # None
    /\ cands = None

\* C4: resolving the output of a call again (same book, previous id and
\* policy, no reload in either call) returns that output unchanged.
C4_Idempotent ==
    (/\ run = 2
     /\ idx_r = Len(replies)
     /\ first_invocations = 0
     /\ reload_invocations = 0) => out = first_out

\* a second call finished on a list holding a resolved and an unresolved item
C4_Witness ==
    /\ run = 2
    /\ idx_r = Len(replies)
    /\ first_invocations = 0
    /\ reload_invocations = 0
    /\ \E j \in DOMAIN out : out[j].weapon_after # None /\ out[j].weapon_after[1].id # None
    /\ \E j \in DOMAIN out : out[j].weapon_after # None /\ out[j].weapon_after[1].id = None

(***************************************************************************)
(* Properties of the event extractor                                       *)
(***************************************************************************)
\* the event message k produced (message k has been scanned and emitted one)
EventOf(k) == x_replies[scan_log[k].ev[1]]

Scanned(k, rule) ==
    /\ k \in DOMAIN scan_log
    /\ msgs[k].sender = BOT_SENDER_NAME
    /\ Rule(msgs[k].content) = rule

\* C6: every emitted ENHANCE_SUCCESS event with both items known has
\* item_after.level = item_before.level + 1.
C6_SuccessLevelUp ==
    \A q \in DOMAIN x_replies :
        (/\ x_replies[q].type = ENHANCE_SUCCESS
         /\ x_replies[q].weapon_before # None
         /\ x_replies[q].weapon_after # None)
        => x_replies[q].weapon_after[1].level = x_replies[q].weapon_before[1].level + 1

\* C7: a keep message yields an ENHANCE_KEEP event whose item is the
\* level-maintained token if the text has one and otherwise the scan's current
\* item; item_before = item_after = that item, and it is the current item afterwards.
C7_KeepItem ==
    \A k \in DOMAIN scan_log :
        Scanned(k, "keep") =>
            LET token == msgs[k].content.keep_line
                item == IF token # None THEN token ELSE scan_log[k].before
            IN /\ scan_log[k].ev # None
               /\ EventOf(k).type = ENHANCE_KEEP
               /\ EventOf(k).weapon_before = item
               /\ EventOf(k).weapon_after = item
               /\ scan_log[k].after = item

\* the bot messages among the lookahead_max messages that follow message k
BotMessagesAfter(k) ==
    { j \in (k + 1)..(k + lookahead_max) :
        j <= Len(msgs) /\ msgs[j].sender = BOT_SENDER_NAME }

\* the messages that follow message k up to the first one of another sender,
\* at most lookahead_max of them
BotRunAfter(k) ==
    { j \in (k + 1)..(k + lookahead_max) :
        j <= Len(msgs) /\ \A q \in (k + 1)..j : msgs[q].sender = BOT_SENDER_NAME }

\* what C8 says of message k when the notice is searched in `window`
BreakMerged(k, window) ==
    LET notices == {j \in window : msgs[j].content.notice # None}
    IN /\ scan_log[k].ev # None <=> notices # {}
       /\ scan_log[k].ev # None =>
            \E j \in notices :
                /\ \A q \in notices : j <= q
                /\ EventOf(k).type = ENHANCE_BREAK
                /\ EventOf(k).weapon_before = fix_known_mismatch(Some(msgs[j].content.notice[1][1]))
                /\ EventOf(k).weapon_after = fix_known_mismatch(Some(msgs[j].content.notice[1][2]))
                /\ scan_log[k].after = fix_known_mismatch(Some(msgs[j].content.notice[1][2]))
       /\ scan_log[k].ev = None => scan_log[k].after = scan_log[k].before

\* C8 as stated: a break message yields an ENHANCE_BREAK event exactly when a
\* break notice is found among the bot messages within the next lookahead_max
\* messages; the event then carries the broken and the granted item.
C8_BreakNeedsNoticeAmongBotMessages ==
    \A k \in DOMAIN scan_log : Scanned(k, "break") => BreakMerged(k, BotMessagesAfter(k))

\* C8 amended: a message that reaches the break rule yields an ENHANCE_BREAK
\* event exactly when a break notice is found among the bot messages that
\* directly follow it (at most lookahead_max, and none after a message of
\* another sender); the event then carries the broken and the granted item
\* of the first such notice (renamed by the known-mismatch table where it has
\* an entry), and current_item becomes the granted item.
C8_BreakNeedsNoticeInBotRun ==
    \A k \in DOMAIN scan_log : Scanned(k, "break") => BreakMerged(k, BotRunAfter(k))

\* a break was merged with a notice that is not the very next message
C8_Witness ==
    \E k \in DOMAIN scan_log :
        /\ Scanned(k, "break")
        /\ scan_log[k].ev # None
        /\ EventOf(k).type = ENHANCE_BREAK
        /\ msgs[k + 1].content.notice = None
        /\ EventOf(k).weapon_after = W("A", 0)

\* C9: the guidance message attached to an INSUFFICIENT_GOLD event is one of
\* the next two messages and produces no event of its own.
C9_GuidanceMakesNoEvent ==
    \A k \in DOMAIN scan_log :
        (Scanned(k, "no_gold") /\ scan_log[k].aux_at # None) =>
            LET j == scan_log[k].aux_at[1]
            IN /\ j \in {k + 1, k + 2}
               /\ msgs[j] \in Range(msgs)
               /\ j \in DOMAIN scan_log => scan_log[j].ev = None

(***************************************************************************)
(* Properties of the macro commands                                        *)
(***************************************************************************)
\* the action the keyword after the mention stands for
KeywordAction(rest) ==
    IF rest = <<Word(FALSE, "jungji")>> THEN Some(MacroAction.PAUSE)
    ELSE IF rest = <<Word(FALSE, "jaegae")>> THEN Some(MacroAction.RESUME)
    ELSE IF rest = <<Word(FALSE, "jongryo")>> THEN Some(MacroAction.EXIT)
    ELSE None

\* C10: the macro command the loop has read carries the action of the keyword
\* after the mention (PAUSE, RESUME, EXIT, else none), and once the loop has
\* handled an EXIT keyword the stop flag is set.
C10_MacroKeywords ==
    usercomm # None =>
        /\ usercomm[1].target = "macro"
        /\ usercomm[1].macro_action = KeywordAction(Tail(usercomm[1].raw))
        /\ (pc = "pause" /\ Tail(usercomm[1].raw) = <<Word(FALSE, "jongryo")>>) => STOP.stop

(***************************************************************************)
(* Properties of the strategy solver                                       *)
(***************************************************************************)
\* C5: for 0 <= start_level <= max_level the returned dict has a Decision for
\* every level from start_level up to and including max_level.
C5_DecisionForEveryLevel ==
    (s_pc = "done" /\ 0 <= kw.start_level /\ kw.start_level <= kw.max_level) =>
        \A l \in kw.start_level..kw.max_level : l \in DOMAIN result

\* the id-level counts of the call's weapon at a level pass both thresholds
IdLevelQualifies(l) ==
    /\ kw.weapon_id # None
    /\ <<kw.weapon_id[1], l>> \in DOMAIN kw.idlvl_cnt
    /\ kw.idlvl_cnt[<<kw.weapon_id[1], l>>].n >= kw.min_n
    /\ break_err_within(kw.idlvl_cnt[<<kw.weapon_id[1], l>>], kw.max_break_err)

\* C11: at every level the induction has handled, if the id-level counts of the
\* resolved weapon id exist with n >= min_n and break half-width <= max_break_err,
\* the probabilities used are the id-level ones and the source is id_level.
C11_IdLevelPreferred ==
    \A l \in DOMAIN decisions :
        IdLevelQualifies(l) =>
            LET cnt == kw.idlvl_cnt[<<kw.weapon_id[1], l>>]
            IN /\ prob_src[l] = "id_level"
               /\ decisions[l].n_prob = cnt.n
               /\ decisions[l].ps = Frac(cnt.k_success, cnt.n)
               /\ decisions[l].pk = Frac(cnt.k_keep, cnt.n)
               /\ decisions[l].pb = Frac(cnt.k_break, cnt.n)

\* a handled level where the id-level and the group-level counts both qualify
C11_Witness ==
    \E l \in DOMAIN decisions :
        /\ IdLevelQualifies(l)
        /\ <<get_group(kw.weapon_id, kw.special_ids), l>> \in DOMAIN kw.grplvl_cnt
        /\ LET g == kw.grplvl_cnt[<<get_group(kw.weapon_id, kw.special_ids), l>>]
           IN g.n >= kw.min_n /\ break_err_within(g, kw.max_break_err)
        /\ prob_src[l] = "id_level"

\* the sell statistics the three-tier fallback should give for a level
SellTier(l) ==
    LET grp == IF kw.weapon_id # None /\ kw.weapon_id[1] \in kw.special_ids
               THEN "special" ELSE "normal"
    IN IF kw.weapon_id # None /\ <<kw.weapon_id[1], l>> \in DOMAIN kw.sell_idlvl
       THEN kw.sell_idlvl[<<kw.weapon_id[1], l>>]
       ELSE IF <<grp, l>> \in DOMAIN kw.sell_grplvl THEN kw.sell_grplvl[<<grp, l>>]
       ELSE IF l \in DOMAIN kw.sell_lvl THEN kw.sell_lvl[l]
       ELSE [mean |-> <<0, 1>>, std |-> <<0, 1>>, n |-> 0]

\* C12: every Decision of a level below max_level has V >= S, V being the larger
\* of V_enh and S, and V[max_level] is the sell mean of max_level.
C12_ValueAtLeastSell ==
    /\ \A l \in DOMAIN decisions :
          LET d == decisions[l]
          IN /\ l < kw.max_level
             /\ d.S = SellTier(l).mean
             /\ CmpFrac(d.V[1], d.V[2], d.S[1], d.S[2]) >= 0
             /\ d.V = IF d.V_enh # NEG_INF /\ CmpFrac(d.V_enh[1], d.V_enh[2], d.S[1], d.S[2]) > 0
                      THEN d.V_enh ELSE d.S
             /\ V[l] = d.V
    /\ s_pc \in {"dp", "done"} => V[kw.max_level] = SellTier(kw.max_level).mean

\* the solver has returned and some level chose ENHANCE with V above the sell mean
C12_Witness ==
    /\ s_pc = "done"
    /\ \E l \in DOMAIN decisions :
          /\ decisions[l].action = "ENHANCE"
          /\ CmpFrac(decisions[l].V[1], decisions[l].V[2], decisions[l].S[1], decisions[l].S[2]) > 0
    /\ \E l \in DOMAIN decisions :
          /\ decisions[l].action = "SELL"
          /\ decisions[l].V_enh # NEG_INF
          /\ decisions[l].S[1] > 0

\* C13: at a level whose selected keep probability is >= 1 the enhancement value
\* is minus infinity, the action is SELL and V is the sell mean; the induction
\* goes on and returns (every level below max_level gets its Decision).
C13_KeepLoopSells ==
    /\ \A l \in DOMAIN decisions :
          decisions[l].pk[1] >= decisions[l].pk[2] =>
              /\ decisions[l].V_enh = NEG_INF
              /\ decisions[l].action = "SELL"
              /\ decisions[l].V = decisions[l].S
    /\ s_pc = "done" => \A l \in 0..(kw.max_level - 1) : l \in DOMAIN decisions

\* the solver has returned and a level had keep probability 1
C13_Witness ==
    /\ s_pc = "done"
    /\ \E l \in DOMAIN decisions :
          /\ decisions[l].pk = <<1, 1>>
          /\ decisions[l].V_enh = NEG_INF
          /\ decisions[l].action = "SELL"

\* C20: the sell statistics of a level are the id-level entry if present, else
\* the group-level entry, else the level entry, whatever their n, and
\* {mean = 0, std = 0, n = 0} when there is none.
C20_SellTiers ==
    /\ \A l \in 0..kw.max_level : sell_at(kw, l) = SellTier(l)
    /\ \A l \in DOMAIN decisions :
          /\ decisions[l].S = SellTier(l).mean
          /\ decisions[l].n_sell = SellTier(l).n

\* a handled level whose id-level, group-level and level entries all exist
\* and differ, and one with no entry at all
C20_Witness ==
    /\ \E l \in DOMAIN decisions :
          /\ kw.weapon_id # None
          /\ <<kw.weapon_id[1], l>> \in DOMAIN kw.sell_idlvl
          /\ <<"normal", l>> \in DOMAIN kw.sell_grplvl
          /\ l \in DOMAIN kw.sell_lvl
          /\ kw.special_ids = {}
          /\ decisions[l].n_sell = 3
          /\ decisions[l].S = <<30, 1>>
    /\ \E l \in DOMAIN decisions : decisions[l].n_sell = 0

(***************************************************************************)
(* Properties of add_to_statistics and the tables                          *)
(***************************************************************************)
\* the event of the add_to_statistics call that has just returned or raised
LastFed == fed[Len(fed)]

\* the enhance event `reply` carries a cost that differs from the cost stored in uc
\* for the level of the item it is attributed to
CostMismatch(reply, uc) ==
    /\ reply.type \in EnhanceTypes
    /\ stat_before(reply, StatBook) # None
    /\ reply.cost # None
    /\ stat_before(reply, StatBook)[1].level \in DOMAIN uc
    /\ uc[stat_before(reply, StatBook)[1].level] # reply.cost[1]

\* C14: when add_to_statistics is given an enhance event whose cost differs from
\* the cost stored for the same before-level, it raises ValueError to the caller,
\* the stored costs are those of before the call, and enhance_events is unchanged.
C14_CostMismatchRaises ==
    [][(e_pc = "collect" /\ Len(fed') = Len(fed) + 1 /\ CostMismatch(fed'[Len(fed')], upgrade_cost))
          => /\ raised' = Some(ValueError)
             /\ upgrade_cost' = upgrade_cost
             /\ enhance_events' = enhance_events]_vars

\* a call raised on a cost of 30 for level 1 while 20 is stored and events are recorded
C14_Witness ==
    /\ raised = Some(ValueError)
    /\ DictGet(upgrade_cost, 1) = Some(20)
    /\ LastFed.cost = Some(30)
    /\ enhance_events # EmptyDict

\* C15: add_to_statistics returns normally or raises because of an upgrade-cost
\* mismatch; it never raises for a missing field such as gold_after.
C15_OnlyCostMismatchRaises ==
    raised # None => raised = Some(ValueError)

\* the records of a container whose item has a tree id
Attributed(events) == [w \in {x \in DOMAIN events : x.id # None} |-> events[w]]

\* C17: the records whose item has tree id None contribute to none of the
\* (tree, level), (group, level) and level tables, of counts and of sell statistics:
\* the tables handed to the solver are those built from the other records alone.
C17_UnattributedExcluded ==
    e_pc = "built" =>
        /\ <<kw.idlvl_cnt, kw.grplvl_cnt, kw.lvl_cnt>>
              = build_count_tables(Attributed(enhance_events), StatBook.special_ids)
        /\ <<kw.sell_idlvl, kw.sell_grplvl, kw.sell_lvl>>
              = build_sell_tables(Attributed(sell_events), StatBook.special_ids)

\* tables were built from records with and without a tree id, enhance and sell
C17_Witness ==
    /\ e_pc = "built"
    /\ \E w \in DOMAIN enhance_events : w.id = None
    /\ \E w \in DOMAIN sell_events : w.id = None
    /\ kw.lvl_cnt # EmptyDict
    /\ kw.sell_lvl # EmptyDict

\* the item `w` (an Optional WeaponInfo) is level `level` of `name` with a tree id
ResolvedItem(w, name, level) ==
    /\ w # None
    /\ w[1].name = name
    /\ w[1].level = level
    /\ w[1].id # None

\* the events of the end-to-end scenario, every item with a resolved tree id:
\* SUCCESS 0->1 "A" cost 10 gold_after 90, KEEP 1 "A" cost 20 gold_after 70,
\* BREAK (1,"A")->(0,"B"), SELL (0,"B") reward 5
ScenarioFed ==
    /\ Len(fed) = 4
    /\ fed[1].type = ENHANCE_SUCCESS
    /\ ResolvedItem(fed[1].weapon_before, "A", 0)
    /\ ResolvedItem(fed[1].weapon_after, "A", 1)
    /\ fed[1].cost = Some(10) /\ fed[1].gold_after = Some(90)
    /\ fed[2].type = ENHANCE_KEEP
    /\ ResolvedItem(fed[2].weapon_before, "A", 1)
    /\ fed[2].cost = Some(20) /\ fed[2].gold_after = Some(70)
    /\ fed[3].type = ENHANCE_BREAK
    /\ ResolvedItem(fed[3].weapon_before, "A", 1)
    /\ fed[3].weapon_after # None
    /\ fed[3].weapon_after[1].name = "B" /\ fed[3].weapon_after[1].level = 0
    /\ fed[4].type = SELL
    /\ ResolvedItem(fed[4].weapon_before, "B", 0)
    /\ fed[4].reward = Some(5)

\* what the scenario is said to yield at levels 0 and 1
ScenarioOutcome ==
    /\ decisions[0].n_prob = 1
    /\ decisions[0].ps = <<1, 1>> /\ decisions[0].pk = <<0, 1>> /\ decisions[0].pb = <<0, 1>>
    /\ decisions[1].n_prob = 2
    /\ decisions[1].ps = <<0, 1>> /\ decisions[1].pk = <<1, 2>> /\ decisions[1].pb = <<1, 2>>
    /\ decisions[1].V_enh = <<-40, 1>>
    /\ decisions[1].S = <<0, 1>>
    /\ decisions[1].action = "SELL"

\* C16: for the events of the end-to-end scenario and min_n = 1 the pipeline
\* yields n=1, ps=1, pk=0, pb=0 at level 0 and n=2, ps=0, pk=0.5, pb=0.5 at
\* level 1, and the solver at level 1 computes V_enhance = -40 against a sell
\* mean of 0 and chooses SELL.
C16_EndToEndScenario ==
    (ScenarioFed /\ s_pc = "done") => ScenarioOutcome

(***************************************************************************)
(* Properties of extract_triplets: event kinds                             *)
(***************************************************************************)
\* the text matches none of the six event patterns
MatchesNoPattern(content) ==
    /\ ~content.busy
    /\ ~content.no_gold
    /\ ~content.sell
    /\ content.succ_hdr = None
    /\ ~content.keep
    /\ ~content.brk

\* C19: every event extract_triplets emits has one of the six kinds, and a bot
\* message that matches no pattern produces no event and leaves current_weapon
\* as it was.
C19_NoUnknownLeakage ==
    /\ \A n \in DOMAIN x_replies :
          x_replies[n].type \in {ENHANCE_SUCCESS, ENHANCE_KEEP, ENHANCE_BREAK, SELL, BUSY,
                                 INSUFFICIENT_GOLD}
    /\ \A k \in DOMAIN scan_log :
          (msgs[k].sender = BOT_SENDER_NAME /\ MatchesNoPattern(msgs[k].content)) =>
              /\ scan_log[k].ev = None
              /\ scan_log[k].after = scan_log[k].before

\* an unmatched bot message was scanned while an item was current, after an event
C19_Witness ==
    \E k \in DOMAIN scan_log :
        /\ msgs[k].sender = BOT_SENDER_NAME
        /\ MatchesNoPattern(msgs[k].content)
        /\ scan_log[k].before # None
        /\ x_replies # <<>>

(***************************************************************************)
(* Properties of the parsing pipeline                                      *)
(***************************************************************************)
NoItemKinds == {BUSY, INSUFFICIENT_GOLD}

\* C18: every BUSY or INSUFFICIENT_GOLD event has weapon_before and weapon_after
\* absent, in the list extract_triplets builds and in the list assign_weapon_ids
\* returns, where it is the input event unchanged.
C18_NoItemOnBusyOrNoGold ==
    /\ \A n \in DOMAIN x_replies :
          x_replies[n].type \in NoItemKinds =>
              x_replies[n].weapon_before = None /\ x_replies[n].weapon_after = None
    /\ run = 3 =>
          \A n \in DOMAIN out :
              replies[n].type \in NoItemKinds =>
                  /\ out[n] = replies[n]
                  /\ out[n].weapon_before = None /\ out[n].weapon_after = None

\* assign_weapon_ids has returned a list with a BUSY and an INSUFFICIENT_GOLD
\* event among resolved item events
C18_Witness ==
    /\ run = 3
    /\ Len(out) = Len(replies)
    /\ \E n \in DOMAIN out : out[n].type = BUSY
    /\ \E n \in DOMAIN out : out[n].type = INSUFFICIENT_GOLD
    /\ \E n \in DOMAIN out : out[n].weapon_after # None

(***************************************************************************)
(* Properties of wilson_ci                                                 *)
(***************************************************************************)
\* C21: for 0 <= k <= n, wilson_ci returns low and high with
\* 0 <= low <= center <= high <= 1 (center being the interval's centre, which
\* exists for n >= 1), and for n = 0 it returns (low, high) = (0, 0).
C21_WilsonBounds ==
    (w_pc # "call" /\ w_k <= w_n) =>
        /\ w_pc = "returned"
        /\ RatLeqSurd(<<0, 1>>, w_ret[1].low)
        /\ SurdLeqRat(w_ret[1].high, <<1, 1>>)
        /\ w_n >= 1 =>
              /\ w_ret[1].center # None
              /\ SurdLeqRat(w_ret[1].low, w_ret[1].center[1])
              /\ RatLeqSurd(w_ret[1].center[1], w_ret[1].high)
        /\ w_n = 0 => (w_ret[1].low = Rat(0, 1) /\ w_ret[1].high = Rat(0, 1))

\* an interval was returned for 0 < k < n
C21_Witness ==
    /\ w_pc = "returned"
    /\ 0 < w_k /\ w_k < w_n
    /\ w_ret[1].low.s = -1
    /\ w_ret[1].high.s = 1

(***************************************************************************)
(* Properties of the identity resolver: reload and track handling          *)
(***************************************************************************)
\* C22: within one run of assign_weapon_ids, two successive runs of the reload
\* callback happen at event timestamps at least policy.reload_cooldown_sec
\* apart, whenever both timestamps are known.
C22_ReloadCooldown ==
    \A j \in 1..(Len(reload_times) - 1) :
        (reload_times[j] # None /\ reload_times[j + 1] # None) =>
            reload_times[j + 1][1] - reload_times[j][1] >= policy.reload_cooldown_sec

\* C23: on a SUCCESS/KEEP event whose after-item lookup returns a set disjoint
\* from the current (non-None) candidates, the candidates become the looked-up
\* set and the pending indices are discarded: the pending list then holds at
\* most this event, and no event that was unresolved before it is stamped later.
C23_TrackDiscontinuity ==
    \A n \in DOMAIN res_log :
        (/\ res_log[n].kind = "track"
         /\ res_log[n].cands_before # None
         /\ res_log[n].after_cands # None
         /\ res_log[n].cands_before[1] \cap res_log[n].after_cands[1] = {})
        => /\ res_log[n].cands_after = res_log[n].after_cands
           /\ Range(res_log[n].pending_after) \subseteq {n}
           /\ \A j \in res_log[n].unresolved : HasId(out[j], None)

\* a discontinuity discarded a pending event and the new track resolved at once
C23_Witness ==
    \E n \in DOMAIN res_log :
        /\ res_log[n].kind = "track"
        /\ res_log[n].cands_before # None
        /\ res_log[n].after_cands # None
        /\ res_log[n].cands_before[1] \cap res_log[n].after_cands[1] = {}
        /\ res_log[n].pending_before # <<>>
        /\ out[n].weapon_after # None
        /\ out[n].weapon_after[1].id # None

\* the id a candidate set stands for: its element when it is a singleton
SingleCandidate(c) ==
    IF c # None /\ Cardinality(c[1]) = 1 THEN Some(CHOOSE x \in c[1] : TRUE) ELSE None

\* C24: a SELL or ENHANCE_BREAK event is resolved from the candidates held
\* before it (a singleton gives its id on item_before, anything else gives none);
\* when it is resolved every pending event of the track carries that id, and
\* otherwise the pending list is dropped and those events stay unresolved.
C24_TerminalResolution ==
    \A n \in DOMAIN res_log :
        res_log[n].kind = "terminate" =>
            /\ out[n].weapon_before # None =>
                  out[n].weapon_before[1].id = SingleCandidate(res_log[n].cands_before)
            /\ res_log[n].pending_after = <<>>
            /\ \A j \in Range(res_log[n].pending_before) :
                  HasId(out[j], SingleCandidate(res_log[n].cands_before))

\* one terminal event was resolved and another one closed a track with an
\* unresolved pending event
C24_Witness ==
    /\ \E n \in DOMAIN res_log :
          /\ res_log[n].kind = "terminate"
          /\ SingleCandidate(res_log[n].cands_before) # None
          /\ out[n].weapon_before # None
    /\ \E n \in DOMAIN res_log :
          /\ res_log[n].kind = "terminate"
          /\ res_log[n].pending_before # <<>>

\* a SUCCESS/KEEP iteration that is not the first after a termination, has no
\* level mismatch and got no candidates for its after-item (absent from the
\* book, or not looked up)
ToleratedMiss(n) ==
    /\ res_log[n].kind = "track"
    /\ ~res_log[n].terminated_prev
    /\ ~res_log[n].mismatch
    /\ res_log[n].after_cands = None

\* C25 as stated: on such an event the candidate set and the pending list are
\* left unchanged.
C25_MissLeavesCandsAndPending ==
    \A n \in DOMAIN res_log :
        ToleratedMiss(n) =>
            /\ res_log[n].cands_after = res_log[n].cands_before
            /\ res_log[n].pending_after = res_log[n].pending_before

\* C25 amended: on such an event the candidate set is left unchanged; and when
\* candidates are held, or the event has an after-item and the policy keeps
\* candidates on an unindexed after-item, no pending index is discarded: the
\* list gains this event when the candidates are no singleton, and is emptied
\* by the backfill of the singleton's id otherwise.
C25_MissIsNoReset ==
    \A n \in DOMAIN res_log :
        ToleratedMiss(n) =>
            /\ res_log[n].cands_after = res_log[n].cands_before
            /\ (\/ res_log[n].cands_before # None
                \/ (policy.keep_candidates_when_after_unindexed /\ out[n].weapon_after # None))
               => IF SingleCandidate(res_log[n].cands_before) = None
                  THEN res_log[n].pending_after = Append(res_log[n].pending_before, n)
                  ELSE /\ res_log[n].pending_after = <<>>
                       /\ \A j \in Range(res_log[n].pending_before) :
                             HasId(out[j], SingleCandidate(res_log[n].cands_before))

\* a looked-up after-item was absent from the book while candidates and a
\* pending event were held
C25_Witness ==
    \E n \in DOMAIN res_log :
        /\ ToleratedMiss(n)
        /\ res_log[n].looked_up
        /\ res_log[n].key_missing
        /\ res_log[n].cands_before # None
        /\ res_log[n].pending_before # <<>>

\* reply n of the input is the first SUCCESS/KEEP event after a SELL/BREAK
FirstAfterTermination(n) ==
    /\ IsTrackEvent(replies[n])
    /\ \E m \in 1..(n - 1) :
          /\ replies[m].type \in {SELL, ENHANCE_BREAK}
          /\ \A j \in (m + 1)..(n - 1) : ~IsTrackEvent(replies[j])

\* C26: under the default policy the reload callback runs only while a
\* SUCCESS/KEEP event is processed that is the first such event after a
\* SELL/BREAK and whose after-item key is absent from the book; a miss at the
\* start of a run or in the middle of a track never reloads.
C26_ReloadGating ==
    policy = WeaponIdPolicy =>
        /\ reload_invocations > 0 => \E n \in DOMAIN res_log : res_log[n].invocations > 0
        /\ \A n \in DOMAIN res_log :
              res_log[n].invocations > 0 =>
                  /\ FirstAfterTermination(n)
                  /\ res_log[n].key_missing

\* under the default policy one miss right after a termination reloaded, and
\* a later miss in the middle of the track did not
C26_Witness ==
    /\ policy = WeaponIdPolicy
    /\ \E n \in DOMAIN res_log :
          /\ res_log[n].invocations > 0
          /\ \E k \in DOMAIN res_log :
                /\ k > n
                /\ res_log[k].kind = "track"
                /\ res_log[k].key_missing
                /\ res_log[k].invocations = 0

\* the item w without its tree id
NoId(w) == IF w = None THEN None ELSE Some([w[1] EXCEPT !.id = None])

\* the event e with the tree ids of its items removed
StripIds(e) == [e EXCEPT !.weapon_before = NoId(@), !.weapon_after = NoId(@)]

\* C27: the returned list has the length and order of the input, and every
\* output event equals its input event in kind, gold_after, cost, reward, raw
\* text, timestamp and the names and levels of its items: only tree ids may
\* differ. The input list is not modified: a first call's input still carries
\* no id, and a second call's input is still the first call's output.
C27_OnlyEnriched ==
    /\ Len(out) = idx_r
    /\ idx_r <= Len(replies)
    /\ \A j \in DOMAIN out : StripIds(out[j]) = StripIds(replies[j])
    /\ run = 1 => \A j \in DOMAIN replies : HasId(replies[j], None)
    /\ run = 2 => replies = first_out
    /\ run = 3 => replies = x_replies

\* a whole input was processed and an event with both items got an id
C27_Witness ==
    /\ run \in {1, 3}
    /\ Len(out) = Len(replies)
    /\ Len(out) >= 2
    /\ \E j \in DOMAIN out :
          /\ out[j].weapon_before # None
          /\ out[j].weapon_after # None
          /\ out[j].weapon_after[1].level > 0
          /\ out[j].weapon_after[1].id # None
          /\ out[j] # replies[j]

\* the event patterns in the order of the bot branch
RulePriority ==
    <<BUSY, INSUFFICIENT_GOLD, SELL, ENHANCE_SUCCESS, ENHANCE_KEEP, ENHANCE_BREAK>>

\* the pattern of an event kind finds a match in the text
PatternMatches(kind, content) ==
    CASE kind = BUSY -> content.busy
      [] kind = INSUFFICIENT_GOLD -> content.no_gold
      [] kind = SELL -> content.sell
      [] kind = ENHANCE_SUCCESS -> content.succ_hdr # None
      [] kind = ENHANCE_KEEP -> content.keep
      [] kind = ENHANCE_BREAK -> content.brk

\* the kind of the first pattern in priority order that matches, as Optional
FirstMatching(content) ==
    LET hits == {p \in DOMAIN RulePriority : PatternMatches(RulePriority[p], content)}
    IN IF hits = {} THEN None
       ELSE Some(RulePriority[CHOOSE p \in hits : \A q \in hits : p <= q])

\* the events that were built from message k
EventsOfMessage(k) == {q \in DOMAIN x_replies : x_replies[q].timestamp = Some(k)}

\* C28: each bot message produces at most one event, and its kind is that of
\* the first matching pattern in the order BUSY, INSUFFICIENT_GOLD, SELL,
\* ENHANCE_SUCCESS, ENHANCE_KEEP, ENHANCE_BREAK; a message that matches several
\* patterns is never classified by a lower-priority one.
C28_RulePriority ==
    \A k \in DOMAIN msgs :
        /\ Cardinality(EventsOfMessage(k)) <= 1
        /\ \A q \in EventsOfMessage(k) :
              /\ msgs[k].sender = BOT_SENDER_NAME
              /\ x_replies[q].raw_main = Some(msgs[k].content)
              /\ FirstMatching(msgs[k].content) = Some(x_replies[q].type)

\* a text that matches the keep and the break pattern, followed by a break
\* notice, was emitted as a keep event
C28_Witness ==
    \E k \in DOMAIN scan_log :
        /\ msgs[k].sender = BOT_SENDER_NAME
        /\ msgs[k].content.keep
        /\ msgs[k].content.brk
        /\ k < Len(msgs)
        /\ msgs[k + 1].content.notice # None
        /\ \E q \in EventsOfMessage(k) : x_replies[q].type = ENHANCE_KEEP

\* a scanned bot message whose first matching pattern is the success header
SuccessMessage(k) ==
    /\ k \in DOMAIN scan_log
    /\ msgs[k].sender = BOT_SENDER_NAME
    /\ FirstMatching(msgs[k].content) = Some(ENHANCE_SUCCESS)

\* C29: a success message without a gained-item token produces no event,
\* leaves current_item unchanged, and is not tried against the keep or the
\* break rule.
C29_SuccessWithoutGainDropped ==
    \A k \in DOMAIN scan_log :
        (SuccessMessage(k) /\ msgs[k].content.gain = None) =>
            /\ scan_log[k].ev = None
            /\ EventsOfMessage(k) = {}
            /\ scan_log[k].after = scan_log[k].before

\* a success header without a gained item, in a text the keep rule would have
\* turned into an event that changes the current item, was scanned
C29_Witness ==
    \E k \in DOMAIN scan_log :
        /\ SuccessMessage(k)
        /\ msgs[k].content.gain = None
        /\ msgs[k].content.keep
        /\ msgs[k].content.keep_line # None
        /\ msgs[k].content.keep_line # scan_log[k].before
        /\ Len(x_replies) > 0

\* C30: the ENHANCE_SUCCESS event of a success message with a gained item has
\* the scan's current item as item_before exactly when the current item is
\* known and its level equals the header's source level, and no item_before
\* otherwise; afterwards the current item is the gained item in every case.
C30_SuccessBeforeItem ==
    \A k \in DOMAIN scan_log :
        (SuccessMessage(k) /\ msgs[k].content.gain # None) =>
            LET cur == scan_log[k].before
                a == msgs[k].content.succ_hdr[1][1]
            IN /\ scan_log[k].ev # None
               /\ EventOf(k).type = ENHANCE_SUCCESS
               /\ EventOf(k).weapon_before =
                     (IF cur # None /\ cur[1].level = a THEN cur ELSE None)
               /\ EventOf(k).weapon_after = msgs[k].content.gain
               /\ scan_log[k].after = msgs[k].content.gain

\* one success took its before-item from the current item, and a later one,
\* whose header level differs from the current item's level, has none
C30_Witness ==
    \E k \in DOMAIN scan_log :
        \E m \in DOMAIN scan_log :
            /\ k < m
            /\ SuccessMessage(k) /\ msgs[k].content.gain # None
            /\ SuccessMessage(m) /\ msgs[m].content.gain # None
            /\ scan_log[k].ev # None /\ scan_log[m].ev # None
            /\ EventOf(k).weapon_before # None
            /\ scan_log[m].before # None
            /\ EventOf(m).weapon_before = None

\* C31: the SELL event of a sell message has the sold-item token as
\* item_before if the text has one and the scan's current item otherwise;
\* item_after is the new-item token or absent; the current item becomes the
\* new item only when that token is present and is otherwise left unchanged.
C31_SellItems ==
    \A k \in DOMAIN scan_log :
        (/\ msgs[k].sender = BOT_SENDER_NAME
         /\ FirstMatching(msgs[k].content) = Some(SELL)) =>
            LET sold == msgs[k].content.sold
                new == msgs[k].content.new
                cur == scan_log[k].before
            IN /\ scan_log[k].ev # None
               /\ EventOf(k).type = SELL
               /\ EventOf(k).weapon_before = (IF sold # None THEN sold ELSE cur)
               /\ EventOf(k).weapon_after = new
               /\ scan_log[k].after = (IF new # None THEN new ELSE cur)

\* a sell text without tokens was scanned while the current item was known:
\* the event's item_before is that item and it is still the current item
C31_Witness ==
    \E k \in DOMAIN scan_log :
        /\ msgs[k].sender = BOT_SENDER_NAME
        /\ FirstMatching(msgs[k].content) = Some(SELL)
        /\ msgs[k].content.sold = None
        /\ msgs[k].content.new = None
        /\ scan_log[k].before # None
        /\ scan_log[k].ev # None
        /\ EventOf(k).weapon_before = scan_log[k].before
        /\ scan_log[k].after = scan_log[k].before

\* the group-level counts of the call's group at a level pass both thresholds
GroupLevelQualifies(l) ==
    LET key == <<get_group(kw.weapon_id, kw.special_ids), l>>
    IN /\ key \in DOMAIN kw.grplvl_cnt
       /\ kw.grplvl_cnt[key].n >= kw.min_n
       /\ break_err_within(kw.grplvl_cnt[key], kw.max_break_err)

\* the level counts exist at a level and have n > 0
LevelHasCounts(l) == l \in DOMAIN kw.lvl_cnt /\ kw.lvl_cnt[l].n > 0

\* the decision of level l carries the probabilities and n of the counts cnt
UsesCounts(l, cnt) ==
    /\ decisions[l].n_prob = cnt.n
    /\ decisions[l].ps = Frac(cnt.k_success, cnt.n)
    /\ decisions[l].pk = Frac(cnt.k_keep, cnt.n)
    /\ decisions[l].pb = Frac(cnt.k_break, cnt.n)

\* C32: below the id level, the group-level data are returned only when the
\* id-level test fails and the group counts pass both thresholds; when
\* neither passes, the level data are returned whenever the level counts have
\* n > 0, whatever the thresholds say, and the fallback ps = 1, pk = 0, pb = 0,
\* n = 0 is returned exactly when the level counts are missing or have n = 0.
C32_BackoffBelowIdLevel ==
    \A l \in DOMAIN decisions :
        /\ prob_src[l] = "group_level" <=> (~IdLevelQualifies(l) /\ GroupLevelQualifies(l))
        /\ prob_src[l] = "group_level" =>
              UsesCounts(l, kw.grplvl_cnt[<<get_group(kw.weapon_id, kw.special_ids), l>>])
        /\ (~IdLevelQualifies(l) /\ ~GroupLevelQualifies(l)) =>
              /\ LevelHasCounts(l) => (prob_src[l] = "level" /\ UsesCounts(l, kw.lvl_cnt[l]))
              /\ prob_src[l] = "fallback" <=> ~LevelHasCounts(l)
              /\ prob_src[l] = "fallback" =>
                    /\ decisions[l].ps = <<1, 1>>
                    /\ decisions[l].pk = <<0, 1>>
                    /\ decisions[l].pb = <<0, 1>>
                    /\ decisions[l].n_prob = 0

\* the level data were used although their n is below min_n, at one level,
\* and the group data at another
C32_Witness ==
    /\ \E l \in DOMAIN decisions :
          /\ prob_src[l] = "level"
          /\ kw.lvl_cnt[l].n < kw.min_n
    /\ \E l \in DOMAIN decisions :
          /\ prob_src[l] = "group_level"
          /\ kw.weapon_id # None
          /\ <<kw.weapon_id[1], l>> \in DOMAIN kw.idlvl_cnt

\* (-C + ps * V[level + 1]) / (1 - pk) with the numbers of the Decision of
\* level l and the value the induction holds for level l + 1
EnhanceValue(l) ==
    LET d == decisions[l]
        C == <<UPGRADE_COST_BY_LEVEL[l], 1>>
    IN FDiv(FAdd(FSub(<<0, 1>>, C), FMul(d.ps, V[l + 1])), FSub(<<1, 1>>, d.pk))

\* C33: at every level below max_level the action is ENHANCE exactly when
\* V_enh > S, a tie giving SELL, and V_enh is (-C + ps * V[level + 1]) / (1 - pk)
\* with the value already computed for level + 1 (for pk < 1, where the
\* quotient exists).
C33_ActionRule ==
    \A l \in DOMAIN decisions :
        LET d == decisions[l]
        IN /\ l < kw.max_level
           /\ (l + 1) \in DOMAIN V
           /\ d.action \in {"ENHANCE", "SELL"}
           /\ d.action = "ENHANCE" <=>
                 (d.V_enh # NEG_INF /\ CmpFrac(d.V_enh[1], d.V_enh[2], d.S[1], d.S[2]) > 0)
           /\ d.pk[1] < d.pk[2] => d.V_enh = EnhanceValue(l)

\* a level where V_enh equals a positive sell mean chose SELL, and a level
\* below it chose ENHANCE on the value computed above it
C33_Witness ==
    /\ \E l \in DOMAIN decisions :
          /\ decisions[l].V_enh = decisions[l].S
          /\ decisions[l].S[1] > 0
          /\ decisions[l].action = "SELL"
    /\ \E l \in DOMAIN decisions :
          /\ l + 1 < kw.max_level
          /\ decisions[l].action = "ENHANCE"

C35_NoReloadWhenDisabled ==
    (~policy.enable_reload \/ policy.mode = "batch") => reload_invocations = 0

\* C36: in batch mode every SUCCESS/KEEP event of the output that carries a
\* tree id and whose after-item (name, level) is a key of the book carries an
\* id of the book's set for that key, backfilled events included.
C36_BatchSound ==
    policy.mode = "batch" =>
        \A j \in DOMAIN out :
            (/\ IsTrackEvent(out[j])
             /\ out[j].weapon_after # None
             /\ out[j].weapon_after[1].id # None
             /\ DictGet(book, <<out[j].weapon_after[1].name, out[j].weapon_after[1].level>>) # None)
            => out[j].weapon_after[1].id[1] \in
                  DictGet(book, <<out[j].weapon_after[1].name, out[j].weapon_after[1].level>>)[1]

\* in batch mode an event that was left unresolved with two candidates got
\* its id by backfill, and a later event was validated against another key
C36_Witness ==
    /\ policy.mode = "batch"
    /\ \E j \in DOMAIN out :
          /\ j \in DOMAIN res_log
          /\ res_log[j].kind = "track"
          /\ res_log[j].cands_after # None
          /\ Cardinality(res_log[j].cands_after[1]) = 2
          /\ out[j].weapon_after # None
          /\ out[j].weapon_after[1].id # None
          /\ \E k \in DOMAIN out :
                /\ k > j
                /\ IsTrackEvent(out[k])
                /\ out[k].weapon_after # None
                /\ out[k].weapon_after[1].id # None
                /\ out[k].weapon_after[1].name # out[j].weapon_after[1].name

\* n = k_success + k_keep + k_break
CountsAddUp(cnt) == cnt.n = cnt.k_success + cnt.k_keep + cnt.k_break

\* the entry-wise sum of the entries of table t under the keys ks
SumCounts(t, ks) ==
    EnhanceCounts(SumOver([k \in ks |-> t[k].n], ks),
                  SumOver([k \in ks |-> t[k].k_success], ks),
                  SumOver([k \in ks |-> t[k].k_keep], ks),
                  SumOver([k \in ks |-> t[k].k_break], ks))

\* C37: in the tables build_count_tables returns, every entry has
\* n = k_success + k_keep + k_break, and for every level the level entry equals
\* the sum of the special and the normal group entry of the level, which
\* equals the sum of the (tree, level) entries of the level.
C37_NestedCounts ==
    e_pc = "built" =>
        /\ \A k \in DOMAIN kw.idlvl_cnt : CountsAddUp(kw.idlvl_cnt[k])
        /\ \A k \in DOMAIN kw.grplvl_cnt : CountsAddUp(kw.grplvl_cnt[k])
        /\ \A k \in DOMAIN kw.lvl_cnt : CountsAddUp(kw.lvl_cnt[k])
        /\ {k[2] : k \in DOMAIN kw.idlvl_cnt} = DOMAIN kw.lvl_cnt
        /\ {k[2] : k \in DOMAIN kw.grplvl_cnt} = DOMAIN kw.lvl_cnt
        /\ \A L \in DOMAIN kw.lvl_cnt :
              /\ kw.lvl_cnt[L] = SumCounts(kw.grplvl_cnt, {k \in DOMAIN kw.grplvl_cnt : k[2] = L})
              /\ kw.lvl_cnt[L] = SumCounts(kw.idlvl_cnt, {k \in DOMAIN kw.idlvl_cnt : k[2] = L})

\* tables were built that hold a special and a normal tree at one level
C37_Witness ==
    /\ e_pc = "built"
    /\ \E L \in DOMAIN kw.lvl_cnt :
          /\ <<"special", L>> \in DOMAIN kw.grplvl_cnt
          /\ <<"normal", L>> \in DOMAIN kw.grplvl_cnt
          /\ kw.lvl_cnt[L].n >= 3
          /\ kw.lvl_cnt[L].k_keep >= 2
          /\ kw.lvl_cnt[L].k_break >= 1

\* C38: while the pause flag is set (by the pause key or by a macro PAUSE
\* command) the main loop sends no bot command, and an iteration that begins
\* with the stop flag set sends none either: it leaves the loop.
C38_PauseHoldsLoop ==
    [][/\ STOP.pause => sends' = sends
       /\ (pc = "top" /\ STOP.stop) => (sends' = sends /\ pc' \in {"top", "exited"})]_vars

====
